---------------------------- MODULE Spec2Model ----------------------------
(***************************************************************************)
(* A model of tensorflow/lite/delegates/gpu/metal/kernels/conv.cc: the     *)
(* selection of the convolution parameters (ConvParams) per GPU family,    *)
(* the reordering of the weights into the layout the generated kernel      *)
(* reads, the weight addressing of the generated kernel, and the dispatch  *)
(* sizes.                                                                   *)
(*                                                                         *)
(* int3 values are records [x, y, z]; an int3 indexed by a number (wg[i])  *)
(* is read with Idx3.  A tensor's data is not stored: the element at       *)
(* linear index f is the tag f + 1, so that every element of the tensor is *)
(* distinct and none is 0 (the value of the padding).                      *)
(***************************************************************************)
EXTENDS Integers, Sequences, FiniteSets, TLC

VARIABLES
    gpu_info,            \* GpuInfo: vendor, the Apple flags, the compute units
    precision,           \* OperationDef::precision
    attr,                \* Convolution2DAttributes
    dst_shape,           \* BHWC of the destination at construction
    pc,                  \* where the program is
    params,              \* the ConvParams record captured by the descriptor
    weights_reordered,   \* what ReorderWeightsForConv returned
    mem_type,            \* memory_type of the weights BufferDescriptor
    task_size,           \* the args task_size_x, task_size_y bound last,
                         \* and the shape they were bound for
    dispatch,            \* what resize_function returned last, and the
                         \* shape it was called with
    weights_cache        \* the arguments of GenerateUploadByThreads and
                         \* the copies its emitted code performs

vars == <<gpu_info, precision, attr, dst_shape, pc, params, weights_reordered,
          mem_type, task_size, dispatch, weights_cache>>

---------------------------------------------------------------------------
(* Bounds of the model.                                                    *)

\* weights.shape.o and weights.shape.i of the reordering's inputs: 1..MaxChannels
MaxChannels == 9
\* weights.shape.h and weights.shape.w of the reordering's inputs: 1..MaxKernel
MaxKernel == 2
\* apple_info.GetComputeUnitsCount(): 1..MaxComputeUnits
MaxComputeUnits == 2
\* width and height of the destination given to the selectors: 1..MaxDst,
\* and three sizes of several work-groups (DstSizes)
MaxDst == 5
\* total_work_items of GenerateUploadByThreads: 1..MaxWorkItems
MaxWorkItems == 8
\* elements_to_upload of GenerateUploadByThreads: 0..MaxElements
MaxElements == 20

---------------------------------------------------------------------------
(* Helpers of common/util.h and common/shape.h.                            *)

DivideRoundUp(n, divisor) == (n + divisor - 1) \div divisor

AlignByN(number, n) == DivideRoundUp(number, n) * n

int3(a, b, c) == [x |-> a, y |-> b, z |-> c]

Idx3(v, i) == IF i = 0 THEN v.x ELSE IF i = 1 THEN v.y ELSE v.z

\* OHWI::LinearIndex({o, h, w, i})
LinearIndex(shape, o, h, w, i) ==
    ((o * shape.h + h) * shape.w + w) * shape.i + i

\* weights.data[f_index]: the tag of the element
WeightsData(f_index) == f_index + 1

---------------------------------------------------------------------------
(* struct ConvParams, with the defaults of its member initialisers; the    *)
(* members without one hold a placeholder until a selector assigns them.   *)

ConvParamsDefault ==
    [ block_size |-> int3(1, 1, 1),
      work_group_size |-> int3(1, 1, 1),
      work_group_launch_order |-> int3(0, 1, 2),
      src_depth_loop_size |-> 1,
      need_src_loop |-> TRUE,
      need_dst_loop |-> TRUE,
      linear_wh |-> FALSE,
      linear_whs |-> FALSE,
      weights_upload_type |-> "GLOBAL_MEM",
      weight_layout |-> "O4I4",
      different_weights_for_height |-> FALSE,
      x_kernel_is_1 |-> FALSE,
      y_kernel_is_1 |-> FALSE ]

---------------------------------------------------------------------------
(* ReorderWeightsForConv.                                                  *)

\* the size of the vector weights_reordered
ReorderAllocSizeNoAlign(weights, p) ==
    weights.shape.w * weights.shape.h *
    DivideRoundUp(weights.shape.o, 4) * 4 * DivideRoundUp(weights.shape.i, 4) * 4

ReorderAllocSize(weights, p) ==
    weights.shape.w * weights.shape.h *
    AlignByN(DivideRoundUp(weights.shape.o, 4), p.block_size.z) * 4 *
    DivideRoundUp(weights.shape.i, 4) * 4

\* src_ch of the innermost loop body
ReorderSrcCh(p, s, j, i) ==
    IF p.weight_layout = "O4I4" THEN s * 4 + i ELSE s * 4 + j

\* dst_ch of the innermost loop body
ReorderDstChSwapped(p, d, k, j, i) ==
    IF p.weight_layout = "O4I4"
    THEN (d * p.block_size.z + k) * 4 + j
    ELSE (d * p.block_size.z + k) * 4 + j

ReorderDstCh(p, d, k, j, i) ==
    IF p.weight_layout = "O4I4"
    THEN (d * p.block_size.z + k) * 4 + j
    ELSE (d * p.block_size.z + k) * 4 + i

\* whether the body writes 0.0f
ReorderIsPaddingSrcOnly(weights, src_ch, dst_ch) ==
    src_ch >= weights.shape.i

ReorderIsPadding(weights, src_ch, dst_ch) ==
    src_ch >= weights.shape.i \/ dst_ch >= weights.shape.o

\* the value the innermost loop body writes at weights_reordered[counter++]
ReorderValue(weights, p, d, y, x, s, k, j, i) ==
    LET src_ch == ReorderSrcCh(p, s, j, i)
        dst_ch == ReorderDstCh(p, d, k, j, i)
    IN  IF ReorderIsPadding(weights, src_ch, dst_ch)
        THEN 0
        ELSE WeightsData(LinearIndex(weights.shape, dst_ch, y, x, src_ch))

\* The seven nested loops, outermost first; each gives the values its
\* iterations write, in the order they are written.
RECURSIVE ReorderLoopI(_, _, _, _, _, _, _, _, _)
ReorderLoopI(weights, p, d, y, x, s, k, j, i) ==
    IF i < 4
    THEN <<ReorderValue(weights, p, d, y, x, s, k, j, i)>>
         \o ReorderLoopI(weights, p, d, y, x, s, k, j, i + 1)
    ELSE <<>>

RECURSIVE ReorderLoopJ(_, _, _, _, _, _, _, _)
ReorderLoopJ(weights, p, d, y, x, s, k, j) ==
    IF j < 4
    THEN ReorderLoopI(weights, p, d, y, x, s, k, j, 0)
         \o ReorderLoopJ(weights, p, d, y, x, s, k, j + 1)
    ELSE <<>>

RECURSIVE ReorderLoopK(_, _, _, _, _, _, _)
ReorderLoopK(weights, p, d, y, x, s, k) ==
    IF k < p.block_size.z
    THEN ReorderLoopJ(weights, p, d, y, x, s, k, 0)
         \o ReorderLoopK(weights, p, d, y, x, s, k + 1)
    ELSE <<>>

RECURSIVE ReorderLoopS(_, _, _, _, _, _)
ReorderLoopS(weights, p, d, y, x, s) ==
    IF s < DivideRoundUp(weights.shape.i, 4)
    THEN ReorderLoopK(weights, p, d, y, x, s, 0)
         \o ReorderLoopS(weights, p, d, y, x, s + 1)
    ELSE <<>>

RECURSIVE ReorderLoopX(_, _, _, _, _)
ReorderLoopX(weights, p, d, y, x) ==
    IF x < weights.shape.w
    THEN ReorderLoopS(weights, p, d, y, x, 0)
         \o ReorderLoopX(weights, p, d, y, x + 1)
    ELSE <<>>

RECURSIVE ReorderLoopY(_, _, _, _)
ReorderLoopY(weights, p, d, y) ==
    IF y < weights.shape.h
    THEN ReorderLoopX(weights, p, d, y, 0)
         \o ReorderLoopY(weights, p, d, y + 1)
    ELSE <<>>

RECURSIVE ReorderLoopD(_, _, _)
ReorderLoopD(weights, p, d) ==
    IF d < DivideRoundUp(DivideRoundUp(weights.shape.o, 4), p.block_size.z)
    THEN ReorderLoopY(weights, p, d, 0)
         \o ReorderLoopD(weights, p, d + 1)
    ELSE <<>>

\* The vector returned: `data' has the allocated size, zero-initialised and
\* then written at 0 .. counter-1 (1 .. counter here); `counter' is the
\* write counter when the loops end.  A write at counter >= size is outside
\* the vector: `data' keeps its size and the counter shows it.
ReorderWeightsForConv(weights, p) ==
    LET size    == ReorderAllocSize(weights, p)
        written == ReorderLoopD(weights, p, 0)
    IN  [ data |-> [n \in 1..size |->
                      IF n <= Len(written) THEN written[n] ELSE 0],
          counter |-> Len(written) ]

NoWeights == [data |-> <<>>, counter |-> 0]

---------------------------------------------------------------------------
(* The group counts of the three dispatch modes.                           *)

GetGroupsCount(dst, wg_size, block_size) ==
    LET dst_slices == DivideRoundUp(dst.c, 4)
        grid_x == DivideRoundUp(dst.w, block_size.x)
        grid_y == DivideRoundUp(dst.h, block_size.y)
        grid_z == DivideRoundUp(dst_slices, block_size.z)
    IN  DivideRoundUp(grid_x, wg_size.x) * DivideRoundUp(grid_y, wg_size.y) *
        DivideRoundUp(grid_z, wg_size.z)

GetGroupsCountForLinearWH(dst, wg_size, block_size) ==
    LET dst_slices == DivideRoundUp(dst.c, 4)
        grid_x == DivideRoundUp(dst.w, block_size.x)
        grid_y == DivideRoundUp(dst.h, block_size.y)
        grid_z == DivideRoundUp(dst_slices, block_size.z)
    IN  DivideRoundUp(grid_x * grid_y, wg_size.x) *
        DivideRoundUp(grid_z, wg_size.y)

GetGroupsCountForLinearWHS(dst, wg_size, block_size) ==
    LET dst_slices == DivideRoundUp(dst.c, 4)
        grid_x == DivideRoundUp(dst.w, block_size.x)
        grid_y == DivideRoundUp(dst.h, block_size.y)
        grid_z == DivideRoundUp(dst_slices, block_size.z)
    IN  DivideRoundUp(grid_x * grid_y * grid_z, wg_size.x)

---------------------------------------------------------------------------
(* IsKernelXIs1, IsKernelYIs1.                                             *)

IsKernelXIs1NoAppended(a) ==
    /\ a.weights.shape.w = 1
    /\ a.strides.w = 1
    /\ a.dilations.w = 1
    /\ a.padding.prepended.w = 0

IsKernelXIs1(a) ==
    /\ a.weights.shape.w = 1
    /\ a.strides.w = 1
    /\ a.dilations.w = 1
    /\ a.padding.prepended.w = 0
    /\ a.padding.appended.w = 0

IsKernelYIs1(a) ==
    /\ a.weights.shape.h = 1
    /\ a.strides.h = 1
    /\ a.dilations.h = 1
    /\ a.padding.prepended.h = 0
    /\ a.padding.appended.h = 0

---------------------------------------------------------------------------
(* The recommended block volume of the Apple selectors.                    *)

GetMaximumPossibleWavesCount(apple_info, dst) ==
    IF apple_info.local_mem_preferred
    THEN GetGroupsCountForLinearWH(dst, int3(32, 1, 1), int3(1, 1, 1))
    ELSE GetGroupsCountForLinearWHS(dst, int3(32, 1, 1), int3(1, 1, 1))

GetRecommendedBlockSize(apple_info, dst) ==
    LET max_waves == GetMaximumPossibleWavesCount(apple_info, dst)
        cu_count  == apple_info.cu_count
    IN  IF max_waves >= cu_count * 64 THEN 8
        ELSE IF max_waves >= cu_count * 32 THEN 4
        ELSE IF max_waves >= cu_count * 16 THEN 2
        ELSE 1

\* static_cast<float>(g2) / static_cast<float>(g3) > threshold, the
\* threshold num/den being 3.1f (31/10), 1.0f (1/1) or 1.04f (26/25).  For
\* group counts below 10^6, as here, the float quotient exceeds the float
\* threshold exactly when the rational quotient exceeds the decimal one.
RatioReaches(g2, g3, num, den) == g2 * den >= num * g3

RatioExceeds(g2, g3, num, den) == g2 * den > num * g3

\* the last steps shared by the two Apple selectors: need_src_loop,
\* need_dst_loop and the constant-memory upload
SetLoopsAndConstantsNoKernelCheck(p, src_slices, dst_slices) ==
    LET p1 == IF p.src_depth_loop_size = src_slices
              THEN [p EXCEPT !.need_src_loop = FALSE] ELSE p
        p2 == IF p1.block_size.z = dst_slices
              THEN [p1 EXCEPT !.need_dst_loop = FALSE] ELSE p1
        use_filters_constants == ~p2.need_dst_loop /\ ~p2.need_src_loop
    IN  IF use_filters_constants
        THEN [p2 EXCEPT !.weights_upload_type = "CONSTANT_MEM"] ELSE p2

SetLoopsAndConstantsSwappedSlices(p, src_slices, dst_slices) ==
    LET p1 == IF p.src_depth_loop_size = dst_slices
              THEN [p EXCEPT !.need_src_loop = FALSE] ELSE p
        p2 == IF p1.block_size.z = src_slices
              THEN [p1 EXCEPT !.need_dst_loop = FALSE] ELSE p1
        use_filters_constants ==
            ~p2.need_dst_loop /\ ~p2.need_src_loop /\
            p2.x_kernel_is_1 /\ p2.y_kernel_is_1
    IN  IF use_filters_constants
        THEN [p2 EXCEPT !.weights_upload_type = "CONSTANT_MEM"] ELSE p2

SetLoopsAndConstantsNoDstLoop(p, src_slices, dst_slices) ==
    LET p2 == IF p.src_depth_loop_size = src_slices
              THEN [p EXCEPT !.need_src_loop = FALSE] ELSE p
        use_filters_constants ==
            ~p2.need_dst_loop /\ ~p2.need_src_loop /\
            p2.x_kernel_is_1 /\ p2.y_kernel_is_1
    IN  IF use_filters_constants
        THEN [p2 EXCEPT !.weights_upload_type = "CONSTANT_MEM"] ELSE p2

SetLoopsAndConstants(p, src_slices, dst_slices) ==
    LET p1 == IF p.src_depth_loop_size = src_slices
              THEN [p EXCEPT !.need_src_loop = FALSE] ELSE p
        p2 == IF p1.block_size.z = dst_slices
              THEN [p1 EXCEPT !.need_dst_loop = FALSE] ELSE p1
        use_filters_constants ==
            ~p2.need_dst_loop /\ ~p2.need_src_loop /\
            p2.x_kernel_is_1 /\ p2.y_kernel_is_1
    IN  IF use_filters_constants
        THEN [p2 EXCEPT !.weights_upload_type = "CONSTANT_MEM"] ELSE p2

\* the switch to full linearization of the Apple selectors
SwitchToLinearWHSKeepWH(p, g2, g3, num, den, upload) ==
    IF RatioExceeds(g2, g3, num, den)
    THEN [p EXCEPT !.linear_whs = TRUE,
                   !.work_group_size = int3(32, 1, 1),
                   !.weights_upload_type = upload]
    ELSE p

SwitchToLinearWHSKeepUpload(p, g2, g3, num, den, upload) ==
    IF RatioExceeds(g2, g3, num, den)
    THEN [p EXCEPT !.linear_wh = FALSE,
                   !.linear_whs = TRUE,
                   !.work_group_size = int3(32, 1, 1)]
    ELSE p

SwitchToLinearWHS(p, g2, g3, num, den, upload) ==
    IF RatioExceeds(g2, g3, num, den)
    THEN [p EXCEPT !.linear_wh = FALSE,
                   !.linear_whs = TRUE,
                   !.work_group_size = int3(32, 1, 1),
                   !.weights_upload_type = upload]
    ELSE p

---------------------------------------------------------------------------
(* GetConvParamsForA7A8.                                                   *)

GetConvParamsForA7A8TileOddAxis(apple_info, a, dst) ==
    LET dst_slices == DivideRoundUp(dst.c, 4)
        src_slices == DivideRoundUp(a.weights.shape.i, 4)
        p0 == [ConvParamsDefault EXCEPT
                  !.weights_upload_type = "LOCAL_MEM_BY_THREADS",
                  !.x_kernel_is_1 = IsKernelXIs1(a),
                  !.y_kernel_is_1 = IsKernelYIs1(a),
                  !.src_depth_loop_size = 1,
                  !.block_size = int3(1, 1, 1),
                  !.linear_wh = FALSE,
                  !.linear_whs = FALSE,
                  !.work_group_launch_order = int3(0, 1, 2),
                  !.weight_layout = "O4I4"]
        blk0 == GetRecommendedBlockSize(apple_info, dst)
        \* block_size.z
        bz   == IF blk0 >= 4 /\ (dst_slices % 4 = 0 \/ dst_slices >= 16) THEN 4
                ELSE IF blk0 >= 2 /\ (dst_slices % 2 = 0 \/ dst_slices >= 4)
                     THEN 2 ELSE 1
        blk1 == blk0 \div bz
        \* block_size.x, block_size.y
        bx   == IF blk1 >= 4 THEN 2
                ELSE IF blk1 >= 2
                     THEN (IF dst.w % 2 # 0 /\ dst.h % 2 = 0 THEN 2 ELSE 1)
                     ELSE 1
        by   == IF blk1 >= 4 THEN 2
                ELSE IF blk1 >= 2
                     THEN (IF dst.w % 2 # 0 /\ dst.h % 2 = 0 THEN 1 ELSE 2)
                     ELSE 1
        p1 == [p0 EXCEPT !.block_size = int3(bx, by, bz),
                         !.work_group_size =
                             IF bx <= by THEN int3(8, 4, 1) ELSE int3(4, 8, 1)]
        g1 == GetGroupsCount(dst, p1.work_group_size, p1.block_size)
        g2 == GetGroupsCountForLinearWH(dst, int3(32, 1, 1), p1.block_size)
        g3 == GetGroupsCountForLinearWHS(dst, int3(32, 1, 1), p1.block_size)
        p2 == IF g2 < g1
              THEN [p1 EXCEPT !.linear_wh = TRUE,
                              !.work_group_size = int3(32, 1, 1),
                              !.work_group_launch_order = int3(0, 1, 2)]
              ELSE p1
        p3 == SwitchToLinearWHS(p2, g2, g3, 31, 10, "GLOBAL_MEM")
    IN  SetLoopsAndConstants(p3, src_slices, dst_slices)

GetConvParamsForA7A8(apple_info, a, dst) ==
    LET dst_slices == DivideRoundUp(dst.c, 4)
        src_slices == DivideRoundUp(a.weights.shape.i, 4)
        p0 == [ConvParamsDefault EXCEPT
                  !.weights_upload_type = "LOCAL_MEM_BY_THREADS",
                  !.x_kernel_is_1 = IsKernelXIs1(a),
                  !.y_kernel_is_1 = IsKernelYIs1(a),
                  !.src_depth_loop_size = 1,
                  !.block_size = int3(1, 1, 1),
                  !.linear_wh = FALSE,
                  !.linear_whs = FALSE,
                  !.work_group_launch_order = int3(0, 1, 2),
                  !.weight_layout = "O4I4"]
        blk0 == GetRecommendedBlockSize(apple_info, dst)
        \* block_size.z
        bz   == IF blk0 >= 4 /\ (dst_slices % 4 = 0 \/ dst_slices >= 16) THEN 4
                ELSE IF blk0 >= 2 /\ (dst_slices % 2 = 0 \/ dst_slices >= 4)
                     THEN 2 ELSE 1
        blk1 == blk0 \div bz
        \* block_size.x, block_size.y
        bx   == IF blk1 >= 4 THEN 2
                ELSE IF blk1 >= 2
                     THEN (IF dst.w % 2 # 0 /\ dst.h % 2 = 0 THEN 1 ELSE 2)
                     ELSE 1
        by   == IF blk1 >= 4 THEN 2
                ELSE IF blk1 >= 2
                     THEN (IF dst.w % 2 # 0 /\ dst.h % 2 = 0 THEN 2 ELSE 1)
                     ELSE 1
        p1 == [p0 EXCEPT !.block_size = int3(bx, by, bz),
                         !.work_group_size =
                             IF bx <= by THEN int3(8, 4, 1) ELSE int3(4, 8, 1)]
        g1 == GetGroupsCount(dst, p1.work_group_size, p1.block_size)
        g2 == GetGroupsCountForLinearWH(dst, int3(32, 1, 1), p1.block_size)
        g3 == GetGroupsCountForLinearWHS(dst, int3(32, 1, 1), p1.block_size)
        p2 == IF g2 < g1
              THEN [p1 EXCEPT !.linear_wh = TRUE,
                              !.work_group_size = int3(32, 1, 1),
                              !.work_group_launch_order = int3(0, 1, 2)]
              ELSE p1
        p3 == SwitchToLinearWHS(p2, g2, g3, 31, 10, "GLOBAL_MEM")
    IN  SetLoopsAndConstants(p3, src_slices, dst_slices)

---------------------------------------------------------------------------
(* GetConvParamsForA9AndHigher.                                            *)

GetConvParamsForA9AndHigher(apple_info, a, dst) ==
    LET dst_slices == DivideRoundUp(dst.c, 4)
        src_slices == DivideRoundUp(a.weights.shape.i, 4)
        blk0 == GetRecommendedBlockSize(apple_info, dst)
        tile == blk0 >= 2 /\ apple_info.bionic
        bx   == IF tile /\ (dst.h % 2 # 0 /\ dst.w % 2 = 0) THEN 2 ELSE 1
        by   == IF tile /\ ~(dst.h % 2 # 0 /\ dst.w % 2 = 0) THEN 2 ELSE 1
        blk1 == IF tile THEN blk0 \div 2 ELSE blk0
        bz0  == IF blk1 >= 4 /\ (dst_slices % 4 = 0 \/ dst_slices >= 16) THEN 4
                ELSE IF blk1 >= 2 /\ (dst_slices % 2 = 0 \/ dst_slices >= 4)
                     THEN 2 ELSE 1
        blk2 == blk1 \div bz0
        bz   == IF blk2 >= 4 /\ dst_slices = 3 THEN 3 ELSE bz0
        block_size == int3(bx, by, bz)
        p0 == [ConvParamsDefault EXCEPT
                  !.weights_upload_type = "GLOBAL_MEM",
                  !.x_kernel_is_1 = IsKernelXIs1(a),
                  !.y_kernel_is_1 = IsKernelYIs1(a),
                  !.src_depth_loop_size = 1,
                  !.block_size = block_size,
                  !.linear_wh = FALSE,
                  !.linear_whs = FALSE,
                  !.work_group_size = int3(8, 4, 1),
                  !.work_group_launch_order = int3(2, 0, 1),
                  !.weight_layout = "O4I4"]
        g1 == GetGroupsCount(dst, int3(8, 4, 1), block_size)
        g2 == GetGroupsCountForLinearWH(dst, int3(32, 1, 1), block_size)
        g3 == GetGroupsCountForLinearWHS(dst, int3(32, 1, 1), block_size)
        p1 == IF g2 < g1
              THEN [p0 EXCEPT !.linear_wh = TRUE,
                              !.work_group_size = int3(32, 1, 1),
                              !.work_group_launch_order = int3(0, 1, 2)]
              ELSE p0
        p2 == IF apple_info.bionic
              THEN SwitchToLinearWHS(p1, g2, g3, 1, 1, p1.weights_upload_type)
              ELSE SwitchToLinearWHS(p1, g2, g3, 26, 25, p1.weights_upload_type)
        total_elements == bx * by * bz
        loop == IF total_elements = 1
                THEN (IF src_slices % 4 = 0 THEN 4
                      ELSE IF src_slices % 2 = 0 THEN 2 ELSE 1)
                ELSE IF total_elements = 2
                     THEN (IF src_slices % 2 = 0 THEN 2 ELSE 1)
                     ELSE 1
        p3 == [p2 EXCEPT !.src_depth_loop_size = loop]
    IN  SetLoopsAndConstants(p3, src_slices, dst_slices)

---------------------------------------------------------------------------
(* GetConvParamsForIntel, GetConvParamsForAMD, GetConvParams.              *)

GetConvParamsForIntelZ2Otherwise(a, prec, dst) ==
    LET dst_slices == DivideRoundUp(dst.c, 4)
        src_slices == DivideRoundUp(a.weights.shape.i, 4)
        bz == IF dst_slices % 4 = 0 \/ dst_slices >= 8 THEN 4
              ELSE 2
        p0 == [ConvParamsDefault EXCEPT
                  !.weights_upload_type = "PRIVATE_MEM_SIMD8_BROADCAST",
                  !.x_kernel_is_1 = IsKernelXIs1(a),
                  !.y_kernel_is_1 = IsKernelYIs1(a),
                  !.src_depth_loop_size = IF src_slices % 2 = 0 THEN 2 ELSE 1,
                  !.linear_wh = FALSE,
                  !.linear_whs = FALSE,
                  !.work_group_launch_order = int3(2, 0, 1),
                  !.block_size = int3(1, 1, bz),
                  !.work_group_size = int3(8, 2, 1),
                  !.weight_layout =
                      IF prec = "F32_F16" THEN "O4I4" ELSE "I4O4"]
        g1 == GetGroupsCount(dst, p0.work_group_size, p0.block_size)
        g2 == GetGroupsCountForLinearWH(dst, int3(16, 1, 1), p0.block_size)
    IN  IF g2 < g1
        THEN [p0 EXCEPT !.linear_wh = TRUE,
                        !.work_group_size = int3(16, 1, 1),
                        !.work_group_launch_order = int3(1, 0, 2)]
        ELSE p0

GetConvParamsForIntel(a, prec, dst) ==
    LET dst_slices == DivideRoundUp(dst.c, 4)
        src_slices == DivideRoundUp(a.weights.shape.i, 4)
        bz == IF dst_slices % 4 = 0 \/ dst_slices >= 8 THEN 4
              ELSE IF dst_slices % 2 = 0 \/ dst_slices >= 4 THEN 2 ELSE 1
        p0 == [ConvParamsDefault EXCEPT
                  !.weights_upload_type = "PRIVATE_MEM_SIMD8_BROADCAST",
                  !.x_kernel_is_1 = IsKernelXIs1(a),
                  !.y_kernel_is_1 = IsKernelYIs1(a),
                  !.src_depth_loop_size = IF src_slices % 2 = 0 THEN 2 ELSE 1,
                  !.linear_wh = FALSE,
                  !.linear_whs = FALSE,
                  !.work_group_launch_order = int3(2, 0, 1),
                  !.block_size = int3(1, 1, bz),
                  !.work_group_size = int3(8, 2, 1),
                  !.weight_layout =
                      IF prec = "F32_F16" THEN "O4I4" ELSE "I4O4"]
        g1 == GetGroupsCount(dst, p0.work_group_size, p0.block_size)
        g2 == GetGroupsCountForLinearWH(dst, int3(16, 1, 1), p0.block_size)
    IN  IF g2 < g1
        THEN [p0 EXCEPT !.linear_wh = TRUE,
                        !.work_group_size = int3(16, 1, 1),
                        !.work_group_launch_order = int3(1, 0, 2)]
        ELSE p0

GetConvParamsForAMD(a, prec, dst) ==
    [ConvParamsDefault EXCEPT
        !.block_size = int3(1, 1, 4),
        !.work_group_size = int3(8, 4, 1),
        !.work_group_launch_order = int3(2, 0, 1),
        !.src_depth_loop_size = 1,
        !.need_src_loop = TRUE,
        !.need_dst_loop = TRUE,
        !.linear_wh = FALSE,
        !.linear_whs = FALSE,
        !.weights_upload_type = "GLOBAL_MEM",
        !.different_weights_for_height = FALSE,
        !.x_kernel_is_1 = IsKernelXIs1(a),
        !.y_kernel_is_1 = IsKernelYIs1(a),
        !.weight_layout = IF prec = "F32_F16" THEN "O4I4" ELSE "I4O4"]

GetConvParamsForOtherLayoutByPrecision(a, prec, dst) ==
    [ConvParamsDefault EXCEPT
        !.block_size = int3(1, 1, 4),
        !.work_group_size = int3(8, 4, 1),
        !.work_group_launch_order = int3(2, 0, 1),
        !.src_depth_loop_size = 1,
        !.need_src_loop = TRUE,
        !.need_dst_loop = TRUE,
        !.linear_wh = FALSE,
        !.linear_whs = FALSE,
        !.weights_upload_type = "GLOBAL_MEM",
        !.different_weights_for_height = FALSE,
        !.x_kernel_is_1 = IsKernelXIs1(a),
        !.y_kernel_is_1 = IsKernelYIs1(a),
        !.weight_layout = IF prec = "F32_F16" THEN "O4I4" ELSE "I4O4"]

\* the last branch of GetConvParams: a device of no recognized vendor
GetConvParamsForOther(a, prec, dst) ==
    [ConvParamsDefault EXCEPT
        !.block_size = int3(1, 1, 4),
        !.work_group_size = int3(8, 4, 1),
        !.work_group_launch_order = int3(2, 0, 1),
        !.src_depth_loop_size = 1,
        !.need_src_loop = TRUE,
        !.need_dst_loop = TRUE,
        !.linear_wh = FALSE,
        !.linear_whs = FALSE,
        !.weights_upload_type = "GLOBAL_MEM",
        !.different_weights_for_height = FALSE,
        !.x_kernel_is_1 = IsKernelXIs1(a),
        !.y_kernel_is_1 = IsKernelYIs1(a),
        !.weight_layout = "O4I4"]

GetConvParams(gpu, a, prec, dst) ==
    IF gpu.vendor = "apple"
    THEN IF gpu.local_mem_preferred
         THEN GetConvParamsForA7A8(gpu, a, dst)
         ELSE GetConvParamsForA9AndHigher(gpu, a, dst)
    ELSE IF gpu.vendor = "intel" THEN GetConvParamsForIntel(a, prec, dst)
    ELSE IF gpu.vendor = "amd" THEN GetConvParamsForAMD(a, prec, dst)
    ELSE GetConvParamsForOther(a, prec, dst)

---------------------------------------------------------------------------
(* The ConvParams of ConvolutionWino4x4To6x6.                              *)

WinoConvParams(gpu) ==
    LET p0 == [ConvParamsDefault EXCEPT
                  !.work_group_launch_order = int3(2, 0, 1),
                  !.src_depth_loop_size = 1,
                  !.need_src_loop = TRUE,
                  !.need_dst_loop = TRUE,
                  !.linear_wh = FALSE,
                  !.linear_whs = FALSE,
                  !.different_weights_for_height = TRUE,
                  !.x_kernel_is_1 = TRUE,
                  !.y_kernel_is_1 = TRUE]
    IN  IF gpu.vendor = "apple"
        THEN IF gpu.local_mem_preferred
             THEN [p0 EXCEPT !.weight_layout = "O4I4",
                             !.weights_upload_type = "LOCAL_MEM_BY_THREADS",
                             !.work_group_size = int3(32, 1, 1),
                             !.block_size = int3(4, 1, 4)]
             ELSE [p0 EXCEPT !.weight_layout = "O4I4",
                             !.weights_upload_type = "GLOBAL_MEM",
                             !.work_group_size = int3(8, 4, 1),
                             !.block_size = int3(4, 1, 4)]
        ELSE IF gpu.vendor = "intel"
        THEN [p0 EXCEPT !.weight_layout = "I4O4",
                        !.weights_upload_type = "PRIVATE_MEM_SIMD8_BROADCAST",
                        !.work_group_size = int3(16, 1, 1),
                        !.block_size = int3(1, 1, 4)]
        ELSE [p0 EXCEPT !.weight_layout = "I4O4",
                        !.weights_upload_type = "GLOBAL_MEM",
                        !.work_group_size = int3(32, 1, 1),
                        !.block_size = int3(2, 1, 4)]

---------------------------------------------------------------------------
(* GetDispatchSizes.                                                       *)

GetDispatchSizesNoLaunchOrder(p, shape) ==
    LET dst_slices == DivideRoundUp(shape.c, 4)
        grid_x == DivideRoundUp(shape.w, p.block_size.x)
        grid_y == DivideRoundUp(shape.h, p.block_size.y)
        grid_z == DivideRoundUp(dst_slices, p.block_size.z)
    IN  IF p.linear_whs
        THEN [ group_size |-> p.work_group_size,
               groups_count |->
                   int3(DivideRoundUp(grid_x * grid_y * grid_z,
                                      p.work_group_size.x), 1, 1) ]
        ELSE IF p.linear_wh
        THEN [ group_size |-> p.work_group_size,
               groups_count |->
                   int3(DivideRoundUp(grid_x * grid_y, p.work_group_size.x),
                        DivideRoundUp(grid_z, p.work_group_size.y), 1) ]
        ELSE [ group_size |-> p.work_group_size,
               groups_count |->
                   int3(DivideRoundUp(grid_x, p.work_group_size.x),
                        DivideRoundUp(grid_y, p.work_group_size.y),
                        DivideRoundUp(grid_z, p.work_group_size.z)) ]

GetDispatchSizes(p, shape) ==
    LET dst_slices == DivideRoundUp(shape.c, 4)
        grid_x == DivideRoundUp(shape.w, p.block_size.x)
        grid_y == DivideRoundUp(shape.h, p.block_size.y)
        grid_z == DivideRoundUp(dst_slices, p.block_size.z)
        group_size == p.work_group_size
        order == p.work_group_launch_order
    IN  IF p.linear_whs
        THEN [ group_size |-> group_size,
               groups_count |->
                   int3(DivideRoundUp(grid_x * grid_y * grid_z,
                                      p.work_group_size.x), 1, 1) ]
        ELSE IF p.linear_wh
        THEN LET wg == int3(DivideRoundUp(grid_x * grid_y,
                                          p.work_group_size.x),
                            DivideRoundUp(grid_z, p.work_group_size.y),
                            0)
             IN  [ group_size |-> group_size,
                   groups_count |->
                       int3(Idx3(wg, order.x), Idx3(wg, order.y), 1) ]
        ELSE LET wg == int3(DivideRoundUp(grid_x, p.work_group_size.x),
                            DivideRoundUp(grid_y, p.work_group_size.y),
                            DivideRoundUp(grid_z, p.work_group_size.z))
             IN  [ group_size |-> group_size,
                   groups_count |->
                       int3(Idx3(wg, order.x), Idx3(wg, order.y),
                            Idx3(wg, order.z)) ]

---------------------------------------------------------------------------
(* Placeholders of the state before construction.                          *)

NoGpu == [vendor |-> "other", local_mem_preferred |-> FALSE,
          bionic |-> FALSE, cu_count |-> 1]

NoShape == [w |-> 0, h |-> 0, c |-> 0]

\* dispatch: the destination shape of the last call of resize_function and
\* the pair it returned; task_size: the destination shape of the last call
\* of update_function and the values it bound to task_size_x, task_size_y
NoDispatch == [shape |-> NoShape, group_size |-> int3(0, 0, 0),
               groups_count |-> int3(0, 0, 0)]

NoTaskSize == [shape |-> NoShape, x |-> 0, y |-> 0]

\* weights_cache: total_work_items and elements_to_upload of the last call
\* of GenerateUploadByThreads, and the copies of the code it emitted
NoUpload == [total_work_items |-> 0, elements_to_upload |-> 0, copies |-> {}]

AxisUnit == [kernel |-> 1, stride |-> 1, dilation |-> 1, prepended |-> 0,
             appended |-> 0]

\* Convolution2DAttributes: weights.shape, and per axis the kernel size,
\* stride, dilation and paddings
MakeAttr(o, h, w, i, ax, ay) ==
    [ weights |-> [shape |-> [o |-> o, h |-> h, w |-> w, i |-> i]],
      strides |-> [w |-> ax.stride, h |-> ay.stride],
      dilations |-> [w |-> ax.dilation, h |-> ay.dilation],
      padding |-> [prepended |-> [w |-> ax.prepended, h |-> ay.prepended],
                   appended |-> [w |-> ax.appended, h |-> ay.appended]] ]

---------------------------------------------------------------------------
(* The reordering on its own: any weights shape, any block_size.z >= 1 and *)
(* either inner layout.                                                    *)

\* block_size.z of the reordering's inputs: the values the selectors assign
ReorderBlockZ == 1..4

InitReorder ==
    /\ gpu_info = NoGpu
    /\ precision = "F32"
    /\ \E o \in 1..MaxChannels, i \in 1..MaxChannels,
          h \in 1..MaxKernel, w \in 1..MaxKernel :
          attr = MakeAttr(o, h, w, i, AxisUnit, AxisUnit)
    /\ dst_shape = [w |-> 1, h |-> 1, c |-> attr.weights.shape.o]
    /\ pc = "reorder"
    /\ \E bz \in ReorderBlockZ, layout \in {"O4I4", "I4O4"} :
          params = [ConvParamsDefault EXCEPT !.block_size.z = bz,
                                             !.weight_layout = layout]
    /\ weights_reordered = NoWeights
    /\ mem_type = "none"
    /\ task_size = NoTaskSize
    /\ dispatch = NoDispatch
    /\ weights_cache = NoUpload

Reorder ==
    /\ pc = "reorder"
    /\ weights_reordered' = ReorderWeightsForConv(attr.weights, params)
    /\ pc' = "reordered"
    /\ UNCHANGED <<gpu_info, precision, attr, dst_shape, params, mem_type,
                   task_size, dispatch, weights_cache>>

NextReorder == Reorder

SpecReorder == InitReorder /\ [][NextReorder]_vars

---------------------------------------------------------------------------
(* The inputs of the selectors.                                            *)

\* GpuInfo: the vendor; for Apple, IsLocalMemoryPreferredOverGlobal (A7,
\* A8), IsBionic (A11 and later; never an A7 or A8) and the compute units
GpuInfos ==
    { [vendor |-> "apple", local_mem_preferred |-> f[1], bionic |-> f[2],
       cu_count |-> c] :
         f \in {<<TRUE, FALSE>>, <<FALSE, FALSE>>, <<FALSE, TRUE>>},
         c \in 1..MaxComputeUnits }
    \cup { [vendor |-> v, local_mem_preferred |-> FALSE, bionic |-> FALSE,
            cu_count |-> 1] : v \in {"intel", "amd", "other"} }

\* CalculationsPrecision
Precisions == {"F32", "F16", "F32_F16"}

\* one axis of the convolution: unit, or unit but for one attribute
AxisConfigs ==
    { AxisUnit,
      [AxisUnit EXCEPT !.kernel = 2],
      [AxisUnit EXCEPT !.stride = 2],
      [AxisUnit EXCEPT !.dilation = 2],
      [AxisUnit EXCEPT !.prepended = 1],
      [AxisUnit EXCEPT !.appended = 1] }

\* output channels (1, 2, 3, 4, 5, 8, 16 and 32 channel-groups) and input
\* channels (1, 2, 3 and 4 channel-groups) given to the selectors
SelectDstChannels == {3, 8, 12, 16, 20, 32, 64, 128}

SelectSrcChannels == {4, 7, 12, 16}

\* widths and heights of the destination: the small ones, and an odd and two
\* even ones that span several work-groups
DstSizes == (1..MaxDst) \cup {15, 16, 24}

InitSelect ==
    /\ gpu_info \in GpuInfos
    /\ precision \in Precisions
    /\ \E w \in DstSizes, h \in DstSizes, c \in SelectDstChannels :
          dst_shape = [w |-> w, h |-> h, c |-> c]
    /\ \E i \in SelectSrcChannels :
          \/ \E a \in {AxisUnit, [AxisUnit EXCEPT !.kernel = 2]} :
                attr = MakeAttr(dst_shape.c, a.kernel, a.kernel, i, a, a)
          \/ /\ dst_shape.w = dst_shape.h
             /\ dst_shape.c = 16
             /\ \E ax \in AxisConfigs, ay \in AxisConfigs :
                   attr = MakeAttr(dst_shape.c, ay.kernel, ax.kernel, i,
                                   ax, ay)
    /\ pc = "select"
    /\ params = ConvParamsDefault
    /\ weights_reordered = NoWeights
    /\ mem_type = "none"
    /\ task_size = NoTaskSize
    /\ dispatch = NoDispatch
    /\ weights_cache = NoUpload

\* GetConvParams(gpu_info, attr, definition.precision, dst_shape)
SelectGeneric ==
    /\ pc = "select"
    /\ params' = GetConvParams(gpu_info, attr, precision, dst_shape)
    /\ pc' = "generic"
    /\ UNCHANGED <<gpu_info, precision, attr, dst_shape, weights_reordered,
                   mem_type, task_size, dispatch, weights_cache>>

\* the ConvParams ConvolutionWino4x4To6x6 builds
SelectWino ==
    /\ pc = "select"
    /\ params' = WinoConvParams(gpu_info)
    /\ pc' = "wino"
    /\ UNCHANGED <<gpu_info, precision, attr, dst_shape, weights_reordered,
                   mem_type, task_size, dispatch, weights_cache>>

NextSelect == SelectGeneric \/ SelectWino

SpecSelect == InitSelect /\ [][NextSelect]_vars

---------------------------------------------------------------------------
(* The weights the generated kernel reads (GenerateConvolution): the       *)
(* pointer tmp, the loops over the kernel rows, the kernel columns and the *)
(* source channel-groups, and conv_core's index z * 4 + ch + offset.       *)
(* A read is [ky, kx, s, z, ch, index]: at kernel position (ky, kx), for   *)
(* the source channel-group s that read_src loaded last, the FLT4 at       *)
(* `index' of the weights buffer is used as f_val for accumulator z, lane  *)
(* ch.  The runtime arguments `a' are kernel_size_x, kernel_size_y,        *)
(* src_slices (args.src_tensor.Slices()) and src_height.                   *)

\* the args ConvolutionGeneric binds, and the tensors the kernel runs on
KernelArgs(at) ==
    [ kernel_size_x |-> at.weights.shape.w,
      kernel_size_y |-> at.weights.shape.h,
      src_slices |-> DivideRoundUp(at.weights.shape.i, 4),
      src_height |-> 1 ]

UseFiltersConstants(p) ==
    ~p.need_dst_loop /\ ~p.need_src_loop /\ p.x_kernel_is_1 /\ p.y_kernel_is_1

UseSimdBroadcast(p) ==
    p.weights_upload_type \in {"PRIVATE_MEM_SIMD8_BROADCAST",
                               "PRIVATE_MEM_SIMD16_BROADCAST",
                               "PRIVATE_MEM_SIMD32_BROADCAST"}

SimdSize(p) ==
    IF p.weights_upload_type = "PRIVATE_MEM_SIMD8_BROADCAST" THEN 8
    ELSE IF p.weights_upload_type = "PRIVATE_MEM_SIMD16_BROADCAST" THEN 16
    ELSE IF p.weights_upload_type = "PRIVATE_MEM_SIMD32_BROADCAST" THEN 32
    ELSE 1

\* the initial value of tmp, in FLT4 from args.weights.GetPtr()
KernelTmpInitNoKernelSize(p, a, Z, Y) ==
    IF UseFiltersConstants(p) \/ ~p.need_dst_loop THEN 0
    ELSE IF p.different_weights_for_height
         THEN (Z * a.src_height + Y * p.block_size.z) * 4 * a.src_slices
         ELSE Z * 4 * a.src_slices

KernelTmpInit(p, a, Z, Y) ==
    IF UseFiltersConstants(p) \/ ~p.need_dst_loop THEN 0
    ELSE IF p.different_weights_for_height
         THEN (Z * a.src_height + Y * p.block_size.z) * 4 * a.src_slices
         ELSE Z * 4 * a.src_slices *
              (IF p.x_kernel_is_1 THEN 1 ELSE a.kernel_size_x) *
              (IF p.y_kernel_is_1 THEN 1 ELSE a.kernel_size_y)

\* tmp += block_size.z * 4 * src_depth_loop_size, unless the filters are
\* read as constants
KernelTmpStep(p) ==
    IF UseFiltersConstants(p) THEN 0
    ELSE p.block_size.z * 4 * p.src_depth_loop_size

\* The element of tmp that f_val names for index n = z * 4 + ch + offset:
\* tmp[n] read directly or through weights_cache[n], a copy of
\* tmp[0 .. local_mem_size - 1]; with the SIMD broadcast, the register
\* simd_w<n / simd_size> of lane n % simd_size, loaded from
\* tmp[lane + (n / simd_size) * simd_size].
KernelFVal(p, n) ==
    IF UseSimdBroadcast(p)
    THEN (n % SimdSize(p)) + (n \div SimdSize(p)) * SimdSize(p)
    ELSE n

\* conv_core(offset), for the source channel-group s
KernelConvCore(p, ky, kx, s, tmp, offset) ==
    { [ky |-> ky, kx |-> kx, s |-> s, z |-> z, ch |-> ch,
       index |-> tmp + KernelFVal(p, z * 4 + ch + offset)] :
         z \in 0..(p.block_size.z - 1), ch \in 0..3 }

\* one pass of the body of the channel-group loop, entered with counter s:
\* conv_core(0), then conv_core(i * block_size.z * 4) for
\* i = 1 .. src_depth_loop_size - 1, each after a read_src
KernelPass(p, ky, kx, s, tmp) ==
    UNION { KernelConvCore(p, ky, kx, s + i, tmp, i * p.block_size.z * 4) :
              i \in 0..(p.src_depth_loop_size - 1) }

\* int s = 0; do { pass } while (s < args.src_tensor.Slices()); the body
\* once when need_src_loop is false
RECURSIVE KernelLoopS(_, _, _, _, _, _)
KernelLoopS(p, a, ky, kx, s, tmp) ==
    LET reads == KernelPass(p, ky, kx, s, tmp)
        s1    == s + p.src_depth_loop_size
        tmp1  == tmp + KernelTmpStep(p)
    IN  IF p.need_src_loop /\ s1 < a.src_slices
        THEN LET rest == KernelLoopS(p, a, ky, kx, s1, tmp1)
             IN  [reads |-> reads \cup rest.reads, tmp |-> rest.tmp]
        ELSE [reads |-> reads, tmp |-> tmp1]

\* int x = 0; do { ... x++; } while (x < args.kernel_size_x); the body once
\* when x_kernel_is_1
RECURSIVE KernelLoopX(_, _, _, _, _)
KernelLoopX(p, a, ky, kx, tmp) ==
    LET this == KernelLoopS(p, a, ky, kx, 0, tmp)
    IN  IF ~p.x_kernel_is_1 /\ kx + 1 < a.kernel_size_x
        THEN LET rest == KernelLoopX(p, a, ky, kx + 1, this.tmp)
             IN  [reads |-> this.reads \cup rest.reads, tmp |-> rest.tmp]
        ELSE this

\* int y = 0; do { ... y++; } while (y < args.kernel_size_y); the body once
\* when y_kernel_is_1
RECURSIVE KernelLoopY(_, _, _, _)
KernelLoopY(p, a, ky, tmp) ==
    LET this == KernelLoopX(p, a, ky, 0, tmp)
    IN  IF ~p.y_kernel_is_1 /\ ky + 1 < a.kernel_size_y
        THEN LET rest == KernelLoopY(p, a, ky + 1, this.tmp)
             IN  [reads |-> this.reads \cup rest.reads, tmp |-> rest.tmp]
        ELSE this

\* The source channel-groups one kernel position reads: src_loc starts at
\* channel-group 0 and every read_src reads *src_loc and then adds
\* SliceStride(); a pass calls read_src src_depth_loop_size times and adds
\* as much to s; the pass is repeated while s < Slices() when need_src_loop
\* is set.  `loc' is src_loc in channel-groups; the result holds the
\* channel-groups read, in order, and the last value of s.
RECURSIVE KernelSrcLoopInclusive(_, _, _, _)
KernelSrcLoopInclusive(p, a, s, loc) ==
    LET pass == [i \in 1..p.src_depth_loop_size |-> loc + i - 1]
        s1   == s + p.src_depth_loop_size
        loc1 == loc + p.src_depth_loop_size
    IN  IF p.need_src_loop /\ s1 <= a.src_slices
        THEN LET rest == KernelSrcLoopInclusive(p, a, s1, loc1)
             IN  [read |-> pass \o rest.read, s |-> rest.s]
        ELSE [read |-> pass, s |-> s1]

RECURSIVE KernelSrcLoop(_, _, _, _)
KernelSrcLoop(p, a, s, loc) ==
    LET pass == [i \in 1..p.src_depth_loop_size |-> loc + i - 1]
        s1   == s + p.src_depth_loop_size
        loc1 == loc + p.src_depth_loop_size
    IN  IF p.need_src_loop /\ s1 < a.src_slices
        THEN LET rest == KernelSrcLoop(p, a, s1, loc1)
             IN  [read |-> pass \o rest.read, s |-> rest.s]
        ELSE [read |-> pass, s |-> s1]

\* the weights read by a thread whose first channel-group is Z and whose
\* first row is Y
KernelWeightReads(p, a, Z, Y) ==
    KernelLoopY(p, a, 0, KernelTmpInit(p, a, Z, Y)).reads

---------------------------------------------------------------------------
(* ConvolutionGeneric and ConvolutionWino4x4To6x6, and the two functions   *)
(* the descriptor holds.                                                   *)

\* the address space of the weights pointer in the kernel text
KernelAddrSpace(p) ==
    IF p.weights_upload_type = "CONSTANT_MEM" THEN "constant" ELSE "device"

WeightsMemoryTypeLocalIsConstant(p) ==
    IF p.weights_upload_type \in {"CONSTANT_MEM", "LOCAL_MEM_BY_THREADS"}
    THEN "CONSTANT" ELSE "GLOBAL"

\* the memory type of the weights buffer ConvolutionGeneric binds
WeightsMemoryType(p) ==
    IF p.weights_upload_type = "CONSTANT_MEM" THEN "CONSTANT" ELSE "GLOBAL"

UpdateTaskSizeGridY(p, shape) ==
    LET grid_x == DivideRoundUp(shape.w, p.block_size.x)
        grid_y == DivideRoundUp(shape.h, p.block_size.y)
    IN  [x |-> grid_x, y |-> grid_y]

\* update_function: the two args it binds for a destination shape
UpdateTaskSize(p, shape) ==
    LET grid_x == DivideRoundUp(shape.w, p.block_size.x)
        grid_y == DivideRoundUp(shape.h, p.block_size.y)
    IN  [x |-> grid_x, y |-> grid_x * grid_y]

\* RearrangeWeightsToWinograd4x4To6x6Weights (winograd_util): a tensor of
\* shape (o, 6, 6, i)
WinoWeights(at) ==
    [shape |-> [o |-> at.weights.shape.o, h |-> 6, w |-> 6,
                i |-> at.weights.shape.i]]

\* The inputs of a construction: a device, a precision, a destination shape
\* and a convolution with dst_shape.c output channels.  Destinations of one
\* work-group and of many; 1, 2, 3, 4 and 5 output channel-groups; 1, 2 and
\* 4 input channel-groups; a unit kernel, a kernel wide on X, a kernel wide
\* on both axes.
MainDstShapes == {<<3, 2>>, <<15, 16>>, <<24, 24>>}

MainDstChannels == {3, 8, 12, 16, 20}

MainSrcChannels == {3, 8, 16}

MainAxes == {<<AxisUnit, AxisUnit>>,
             <<[AxisUnit EXCEPT !.kernel = 2], AxisUnit>>,
             <<[AxisUnit EXCEPT !.kernel = 2], [AxisUnit EXCEPT !.kernel = 2]>>}

\* and a kernel of width 1 that is not unit on X, for its stride
ConstructAxes ==
    MainAxes \cup {<<[AxisUnit EXCEPT !.stride = 2], AxisUnit>>}

InitConstruct ==
    /\ gpu_info \in GpuInfos
    /\ precision \in Precisions
    /\ \E wh \in MainDstShapes, c \in MainDstChannels :
          dst_shape = [w |-> wh[1], h |-> wh[2], c |-> c]
    /\ \E i \in MainSrcChannels, ax \in ConstructAxes :
          attr = MakeAttr(dst_shape.c, ax[2].kernel, ax[1].kernel, i,
                          ax[1], ax[2])
    /\ pc = "start"
    /\ params = ConvParamsDefault
    /\ weights_reordered = NoWeights
    /\ mem_type = "none"
    /\ task_size = NoTaskSize
    /\ dispatch = NoDispatch
    /\ weights_cache = NoUpload

\* The inputs of the runs in which the runtime goes on to call
\* update_function and resize_function: as above, with one input
\* channel-group.
Init ==
    /\ gpu_info \in GpuInfos
    /\ precision \in Precisions
    /\ \E wh \in MainDstShapes, c \in MainDstChannels :
          dst_shape = [w |-> wh[1], h |-> wh[2], c |-> c]
    /\ \E ax \in MainAxes :
          attr = MakeAttr(dst_shape.c, ax[2].kernel, ax[1].kernel, 3,
                          ax[1], ax[2])
    /\ pc = "start"
    /\ params = ConvParamsDefault
    /\ weights_reordered = NoWeights
    /\ mem_type = "none"
    /\ task_size = NoTaskSize
    /\ dispatch = NoDispatch
    /\ weights_cache = NoUpload

\* the destination shapes the runtime calls update_function and
\* resize_function with: the one of the construction and three others
RuntimeShapes ==
    { [w |-> wh[1], h |-> wh[2], c |-> dst_shape.c] :
        wh \in {<<dst_shape.w, dst_shape.h>>, <<1, 1>>, <<9, 5>>, <<32, 32>>} }

ConvolutionGeneric ==
    /\ pc = "start"
    /\ params' = GetConvParams(gpu_info, attr, precision, dst_shape)
    /\ weights_reordered' = ReorderWeightsForConv(attr.weights, params')
    /\ mem_type' = WeightsMemoryType(params')
    /\ pc' = "generic"
    /\ UNCHANGED <<gpu_info, precision, attr, dst_shape, task_size, dispatch,
                   weights_cache>>

ConvolutionWino4x4To6x6 ==
    /\ pc = "start"
    /\ params' = WinoConvParams(gpu_info)
    /\ weights_reordered' = ReorderWeightsForConv(WinoWeights(attr), params')
    /\ mem_type' = "GLOBAL"
    /\ pc' = "wino"
    /\ UNCHANGED <<gpu_info, precision, attr, dst_shape, task_size, dispatch,
                   weights_cache>>

\* desc.update_function(src_shapes, dst_shapes, args)
UpdateFunction ==
    /\ pc \in {"generic", "wino"}
    /\ \E shape \in RuntimeShapes :
          LET bound == UpdateTaskSize(params, shape)
          IN  task_size' = [shape |-> shape, x |-> bound.x, y |-> bound.y]
    /\ UNCHANGED <<gpu_info, precision, attr, dst_shape, pc, params,
                   weights_reordered, mem_type, dispatch, weights_cache>>

\* desc.resize_function(src_shapes, dst_shapes)
ResizeFunction ==
    /\ pc \in {"generic", "wino"}
    /\ \E shape \in RuntimeShapes :
          LET sizes == GetDispatchSizes(params, shape)
          IN  dispatch' = [shape |-> shape, group_size |-> sizes.group_size,
                           groups_count |-> sizes.groups_count]
    /\ UNCHANGED <<gpu_info, precision, attr, dst_shape, pc, params,
                   weights_reordered, mem_type, task_size, weights_cache>>

Next ==
    \/ ConvolutionGeneric
    \/ ConvolutionWino4x4To6x6
    \/ UpdateFunction
    \/ ResizeFunction

Spec == Init /\ [][Next]_vars

\* the generic construction alone, over the wider inputs of InitConstruct
SpecConstruct == InitConstruct /\ [][ConvolutionGeneric]_vars

\* The inputs of the runs in which the threads of every launch are
\* enumerated: as Init, with the unit kernel and the kernel wide on both
\* axes (the kernel size changes the upload type of the record, not its
\* tiling or its dispatch), and with destinations of an odd width and an
\* even height, and of an even width and an odd height.
LaunchAxes == {<<AxisUnit, AxisUnit>>,
               <<[AxisUnit EXCEPT !.kernel = 2],
                 [AxisUnit EXCEPT !.kernel = 2]>>}

LaunchDstShapes == {<<3, 2>>, <<15, 16>>, <<24, 15>>}

InitLaunch ==
    /\ gpu_info \in GpuInfos
    /\ precision \in Precisions
    /\ \E wh \in LaunchDstShapes, c \in MainDstChannels :
          dst_shape = [w |-> wh[1], h |-> wh[2], c |-> c]
    /\ \E ax \in LaunchAxes :
          attr = MakeAttr(dst_shape.c, ax[2].kernel, ax[1].kernel, 3,
                          ax[1], ax[2])
    /\ pc = "start"
    /\ params = ConvParamsDefault
    /\ weights_reordered = NoWeights
    /\ mem_type = "none"
    /\ task_size = NoTaskSize
    /\ dispatch = NoDispatch
    /\ weights_cache = NoUpload

SpecLaunch == InitLaunch /\ [][Next]_vars

---------------------------------------------------------------------------
(* The steps of a construction that take the record as an argument         *)
(* (ReorderWeightsForConv, GetDispatchSizes, and GlobalIdsGen's choice of  *)
(* the thread-id decoding), applied to a given record: one a selector or   *)
(* the Winograd path produced, or one written by hand, with a block_size   *)
(* component of 0 or with linear_wh and linear_whs both set.  None of the  *)
(* steps tests the record.  A division by a block_size component of 0 is   *)
(* undefined: the step either ends the process or goes on with a value     *)
(* that is not determined.                                                 *)

GlobalIdsModeWhFirst(p) ==
    IF p.linear_wh THEN "linear_wh"
    ELSE IF p.linear_whs THEN "linear_whs"
    ELSE "3d"

\* the decoding GlobalIdsGen emits
GlobalIdsMode(p) ==
    IF p.linear_whs THEN "linear_whs"
    ELSE IF p.linear_wh THEN "linear_wh"
    ELSE "3d"

\* the records written by hand
HandBlockSizes == {int3(1, 1, 1), int3(2, 1, 2), int3(0, 1, 1), int3(1, 1, 0)}

HandRecords ==
    { [ConvParamsDefault EXCEPT
          !.block_size = b,
          !.work_group_size = int3(8, 4, 1),
          !.linear_wh = f[1],
          !.linear_whs = f[2],
          !.work_group_launch_order = o] :
        b \in HandBlockSizes, f \in BOOLEAN \X BOOLEAN,
        o \in {int3(0, 1, 2), int3(1, 0, 2)} }

InitRecord ==
    /\ precision = "F32"
    /\ \E wh \in MainDstShapes, c \in MainDstChannels :
          dst_shape = [w |-> wh[1], h |-> wh[2], c |-> c]
    /\ attr = MakeAttr(dst_shape.c, 1, 1, 3, AxisUnit, AxisUnit)
    /\ \/ /\ gpu_info \in GpuInfos
          /\ params \in {GetConvParams(gpu_info, attr, precision, dst_shape),
                         WinoConvParams(gpu_info)}
       \/ /\ gpu_info = NoGpu
          /\ params \in HandRecords
    /\ pc = "record"
    /\ weights_reordered = NoWeights
    /\ mem_type = "none"
    /\ task_size = NoTaskSize
    /\ dispatch = NoDispatch
    /\ weights_cache = NoUpload

\* ReorderWeightsForConv(attr.weights, params)
ReorderForRecord ==
    /\ pc = "record"
    /\ IF params.block_size.z # 0
       THEN /\ weights_reordered' =
                  ReorderWeightsForConv(attr.weights, params)
            /\ pc' = "record_built"
       ELSE /\ weights_reordered' = NoWeights
            /\ pc' \in {"crashed", "record_built"}
    /\ mem_type' = WeightsMemoryType(params)
    /\ UNCHANGED <<gpu_info, precision, attr, dst_shape, params, task_size,
                   dispatch, weights_cache>>

\* GetDispatchSizes(params, dst_shapes[0])
DispatchForRecord ==
    /\ pc = "record_built"
    /\ \E shape \in RuntimeShapes :
          IF /\ params.block_size.x # 0
             /\ params.block_size.y # 0
             /\ params.block_size.z # 0
          THEN LET sizes == GetDispatchSizes(params, shape)
               IN  /\ dispatch' = [shape |-> shape,
                                   group_size |-> sizes.group_size,
                                   groups_count |-> sizes.groups_count]
                   /\ pc' = "record_sized"
          ELSE /\ dispatch' \in {[NoDispatch EXCEPT !.shape = shape],
                                 [shape |-> shape,
                                  group_size |-> params.work_group_size,
                                  groups_count |-> int3(1, 1, 1)]}
               /\ pc' \in {"crashed", "record_sized"}
    /\ UNCHANGED <<gpu_info, precision, attr, dst_shape, params,
                   weights_reordered, mem_type, task_size, weights_cache>>

NextRecord == ReorderForRecord \/ DispatchForRecord

SpecRecord == InitRecord /\ [][NextRecord]_vars

---------------------------------------------------------------------------
(* The threads of a dispatch and the first statements of the kernel: the   *)
(* thread-id decoding GlobalIdsGen emits, the exit on Z and the exit on X  *)
(* and Y.  A thread is a work-group position g (group_id) and a position   *)
(* l in the work-group (tid3d); lsize is the work-group size; ts holds the *)
(* args task_size_x (ts.x) and task_size_y (ts.y).                         *)

\* launch_remap[launch_order.x] = 0; [launch_order.y] = 1; [.z] = 2
LaunchRemap(order) ==
    LET at(i) == IF order.x = i THEN 0 ELSE IF order.y = i THEN 1 ELSE 2
    IN  int3(at(0), at(1), at(2))

\* ugid: thread_position_in_grid
GlobalId(g, l, lsize) ==
    int3(g.x * lsize.x + l.x, g.y * lsize.y + l.y, g.z * lsize.z + l.z)

GlobalIdsGenNoRemap(p, ts, g, l, lsize) ==
    LET ugid   == GlobalId(g, l, lsize)
        b      == p.block_size
    IN  IF p.linear_whs
        THEN LET linear_whs == ugid.x
                 linear_wh  == linear_whs % ts.y
             IN  [ X |-> (linear_wh % ts.x) * b.x,
                   Y |-> (linear_wh \div ts.x) * b.y,
                   Z |-> (linear_whs \div ts.y) * b.z ]
        ELSE IF p.linear_wh
        THEN LET linear_wh == ugid.x
             IN  [ X |-> (linear_wh % ts.x) * b.x,
                   Y |-> (linear_wh \div ts.x) * b.y,
                   Z |-> ugid.y * b.z ]
        ELSE [ X |-> ugid.x * b.x, Y |-> ugid.y * b.y, Z |-> ugid.z * b.z ]

\* X, Y, Z as GlobalIdsGen's code computes them
GlobalIdsGen(p, ts, g, l, lsize) ==
    LET ugid   == GlobalId(g, l, lsize)
        remap  == LaunchRemap(p.work_group_launch_order)
        order  == p.work_group_launch_order
        b      == p.block_size
    IN  IF p.linear_whs
        THEN LET linear_whs == ugid.x
                 linear_wh  == linear_whs % ts.y
             IN  [ X |-> (linear_wh % ts.x) * b.x,
                   Y |-> (linear_wh \div ts.x) * b.y,
                   Z |-> (linear_whs \div ts.y) * b.z ]
        ELSE IF p.linear_wh
        THEN LET linear_wh == IF order.x = 0 THEN ugid.x
                              ELSE Idx3(g, remap.x) * lsize.x + l.x
             IN  [ X |-> (linear_wh % ts.x) * b.x,
                   Y |-> (linear_wh \div ts.x) * b.y,
                   Z |-> IF order.y = 1 THEN ugid.y * b.z
                         ELSE (Idx3(g, remap.y) * lsize.y + l.y) * b.z ]
        ELSE [ X |-> IF order.x = 0 THEN ugid.x * b.x
                     ELSE (Idx3(g, remap.x) * lsize.x + l.x) * b.x,
               Y |-> IF order.y = 1 THEN ugid.y * b.y
                     ELSE (Idx3(g, remap.y) * lsize.y + l.y) * b.y,
               Z |-> IF order.z = 2 THEN ugid.z * b.z
                     ELSE (Idx3(g, remap.z) * lsize.z + l.z) * b.z ]

UseLocalMem(p) == p.weights_upload_type = "LOCAL_MEM_BY_THREADS"

\* where "if (X >= Width() || Y >= Height()) return;" is emitted
XYExitAlwaysEarly(p) ==
    IF ~p.linear_whs THEN "before_loops" ELSE "none"

XYExit(p) ==
    LET late_xy_check == UseLocalMem(p) \/ UseSimdBroadcast(p)
    IN  IF ~late_xy_check /\ ~p.linear_whs THEN "before_loops"
        ELSE IF late_xy_check /\ ~p.linear_whs THEN "after_loops"
        ELSE "none"

\* the thread returns before the loops, and so before the weights are
\* staged: on "if (Z >= Slices()) return;" or on the early X, Y exit
ReturnsBeforeLoops(p, shape, ids) ==
    \/ ids.Z >= DivideRoundUp(shape.c, 4)
    \/ /\ XYExit(p) = "before_loops"
       /\ (ids.X >= shape.w \/ ids.Y >= shape.h)

\* the thread goes on to the stores: it takes neither the exit on Z nor
\* the exit on X and Y, wherever that one is emitted (before the loops or
\* after them), and linear_whs emits none
ReachesStore(p, shape, ids) ==
    /\ ~(ids.Z >= DivideRoundUp(shape.c, 4))
    /\ XYExit(p) # "none" => ~(ids.X >= shape.w \/ ids.Y >= shape.h)

\* the destination positions (x, y, channel-group) the stores of a thread
\* write: "if (Z + z < Slices())" around every store, and
\* "(X + x) < Width()" only for x >= 1, "(Y + y) < Height()" only for y >= 1
StoreTargetsNoCheckX(p, shape, ids) ==
    { [x |-> ids.X + o.x, y |-> ids.Y + o.y, s |-> ids.Z + o.z] :
        o \in { q \in { int3(x, y, z) : x \in 0..(p.block_size.x - 1),
                                        y \in 0..(p.block_size.y - 1),
                                        z \in 0..(p.block_size.z - 1) } :
                  /\ ids.Z + q.z < DivideRoundUp(shape.c, 4)
                  /\ q.y >= 1 => (ids.Y + q.y) < shape.h } }

StoreTargets(p, shape, ids) ==
    { [x |-> ids.X + o.x, y |-> ids.Y + o.y, s |-> ids.Z + o.z] :
        o \in { q \in { int3(x, y, z) : x \in 0..(p.block_size.x - 1),
                                        y \in 0..(p.block_size.y - 1),
                                        z \in 0..(p.block_size.z - 1) } :
                  /\ ids.Z + q.z < DivideRoundUp(shape.c, 4)
                  /\ q.x >= 1 => (ids.X + q.x) < shape.w
                  /\ q.y >= 1 => (ids.Y + q.y) < shape.h } }

\* the positions of the work-groups of a dispatch, and of the threads of
\* one work-group
GroupIds(d) ==
    { int3(x, y, z) : x \in 0..(d.groups_count.x - 1),
                      y \in 0..(d.groups_count.y - 1),
                      z \in 0..(d.groups_count.z - 1) }

LocalIds(d) ==
    { int3(x, y, z) : x \in 0..(d.group_size.x - 1),
                      y \in 0..(d.group_size.y - 1),
                      z \in 0..(d.group_size.z - 1) }

---------------------------------------------------------------------------
(* GenerateUploadByThreads: the statements it emits, and what a thread     *)
(* does when it runs them.  A statement copies                             *)
(* local[lid + shift] = global[lid + shift] (global_offset_name is empty   *)
(* in the call of GenerateConvolution), under "if (lid < below)" where the *)
(* code emits that condition; below = -1 stands for no condition.          *)

UploadStatement(shift, below) == [shift |-> shift, below |-> below]

GenerateUploadByThreadsNoReminderCheck(total_work_items, elements_to_upload) ==
    LET groups == elements_to_upload \div total_work_items
        reminder == elements_to_upload % total_work_items
    IN  [i \in 1..groups |-> UploadStatement(total_work_items * (i - 1), -1)]
        \o (IF reminder # 0
              THEN <<UploadStatement(total_work_items * groups, -1)>>
              ELSE <<>>)

GenerateUploadByThreads(total_work_items, elements_to_upload) ==
    LET groups == elements_to_upload \div total_work_items
        reminder == elements_to_upload % total_work_items
    IN  [i \in 1..groups |-> UploadStatement(total_work_items * (i - 1), -1)]
        \o (IF reminder # 0
              THEN <<UploadStatement(total_work_items * groups, reminder)>>
              ELSE <<>>)

\* the copies the thread of local index lid performs when it runs the code
UploadRun(code, lid) ==
    { [lid |-> lid, local |-> lid + code[k].shift,
       global |-> lid + code[k].shift] :
        k \in { j \in 1..Len(code) :
                    code[j].below = -1 \/ lid < code[j].below } }

InitUpload ==
    /\ gpu_info = NoGpu
    /\ precision = "F32"
    /\ attr = MakeAttr(1, 1, 1, 1, AxisUnit, AxisUnit)
    /\ dst_shape = NoShape
    /\ pc = "upload"
    /\ params = ConvParamsDefault
    /\ weights_reordered = NoWeights
    /\ mem_type = "none"
    /\ task_size = NoTaskSize
    /\ dispatch = NoDispatch
    /\ weights_cache \in { [total_work_items |-> n, elements_to_upload |-> e,
                     copies |-> {}] :
                        n \in 1..MaxWorkItems, e \in 0..MaxElements }

\* the work-group runs the emitted code: the threads of local index
\* 0..total_work_items-1
UploadByThreads ==
    /\ pc = "upload"
    /\ pc' = "uploaded"
    /\ weights_cache' = [weights_cache EXCEPT !.copies =
          LET n == weights_cache.total_work_items
              code == GenerateUploadByThreads(n,
                                      weights_cache.elements_to_upload)
          IN  UNION { UploadRun(code, lid) : lid \in 0..(n - 1) }]
    /\ UNCHANGED <<gpu_info, precision, attr, dst_shape, params,
                   weights_reordered, mem_type, task_size, dispatch>>

NextUpload == UploadByThreads

SpecUpload == InitUpload /\ [][NextUpload]_vars

---------------------------------------------------------------------------
(* The layout of the reordered weights, as the specification states it:    *)
(* position = ((((((d*h + y)*w + x)*S + s)*bz + k)*4 + j)*4 + i, with d    *)
(* the channel-group tile, (y, x) the kernel position, s the input         *)
(* channel-group, k the channel-group within the tile, and (j, i) the two  *)
(* 4-element axes.  These definitions are used by the properties only.     *)

LayoutDigits(shape, bz, pos) ==
    LET S == (shape.i + 3) \div 4
    IN  [ i |-> pos % 4,
          j |-> (pos \div 4) % 4,
          k |-> (pos \div 16) % bz,
          s |-> (pos \div (16 * bz)) % S,
          x |-> (pos \div (16 * bz * S)) % shape.w,
          y |-> (pos \div (16 * bz * S * shape.w)) % shape.h,
          d |-> pos \div (16 * bz * S * shape.w * shape.h) ]

\* the output channel and the input channel of a position
LayoutDstCh(layout, bz, g) ==
    (g.d * bz + g.k) * 4 + (IF layout = "O4I4" THEN g.j ELSE g.i)

LayoutSrcCh(layout, g) ==
    g.s * 4 + (IF layout = "O4I4" THEN g.i ELSE g.j)

\* the inverse index map: the position of element (oc, y, x, ic)
LayoutPos(shape, layout, bz, oc, y, x, ic) ==
    LET S == (shape.i + 3) \div 4
        d == (oc \div 4) \div bz
        k == (oc \div 4) % bz
        s == ic \div 4
        j == IF layout = "O4I4" THEN oc % 4 ELSE ic % 4
        i == IF layout = "O4I4" THEN ic % 4 ELSE oc % 4
    IN  ((((((d * shape.h + y) * shape.w + x) * S + s) * bz + k) * 4 + j) * 4) + i

\* the tensor's element (oc, y, x, ic), indexed [o][h][w][i]
TensorAt(shape, oc, y, x, ic) ==
    ((oc * shape.h + y) * shape.w + x) * shape.i + ic + 1

---------------------------------------------------------------------------
(* C1: for every weights shape (o, h, w, i) and block_size.z >= 1 the      *)
(* sequence ReorderWeightsForConv returns has exactly                      *)
(* w*h*ceil(ceil(o/4)/block_size.z)*block_size.z*4*ceil(i/4)*4 elements,   *)
(* and the write counter of its loops ends equal to that length: the       *)
(* positions 0 .. length-1 are each written once, none past the end.       *)
C1_ReorderLength ==
    pc = "reordered" =>
        LET sh == attr.weights.shape
            bz == params.block_size.z
            og == (sh.o + 3) \div 4
            ig == (sh.i + 3) \div 4
        IN  /\ Len(weights_reordered.data)
                 = sh.w * sh.h * ((og + bz - 1) \div bz) * bz * 4 * ig * 4
            /\ weights_reordered.counter = Len(weights_reordered.data)

\* a reordering whose channel-group count is no multiple of block_size.z,
\* with more than one kernel position
C1_Witness ==
    /\ pc = "reordered"
    /\ ((attr.weights.shape.o + 3) \div 4) % params.block_size.z # 0
    /\ attr.weights.shape.h = 2 /\ attr.weights.shape.w = 2
    /\ weights_reordered.counter = Len(weights_reordered.data)
    /\ weights_reordered.counter > 0

(* C2: every position of the reordered weights whose (output channel,      *)
(* input channel) pair is outside the tensor (output channel >= o or input *)
(* channel >= i) holds 0, for both inner layouts and every block_size.z.   *)
C2_PaddingIsZero ==
    pc = "reordered" =>
        \A n \in 1..Len(weights_reordered.data) :
            LET sh == attr.weights.shape
                g  == LayoutDigits(sh, params.block_size.z, n - 1)
            IN  (\/ LayoutDstCh(params.weight_layout, params.block_size.z, g)
                       >= sh.o
                 \/ LayoutSrcCh(params.weight_layout, g) >= sh.i)
                => weights_reordered.data[n] = 0

\* a reordering in the I4O4 layout that pads output channels, input
\* channels and whole channel-groups: its last position is padding
C2_Witness ==
    /\ pc = "reordered"
    /\ params.weight_layout = "I4O4"
    /\ attr.weights.shape.o % 4 # 0
    /\ attr.weights.shape.i % 4 # 0
    /\ ((attr.weights.shape.o + 3) \div 4) % params.block_size.z # 0
    /\ Len(weights_reordered.data) > 0
    /\ weights_reordered.data[Len(weights_reordered.data)] = 0
    /\ weights_reordered.data[1] # 0

(* C3: the reordering is invertible on the non-padded region: every        *)
(* element (output channel, kernel row, kernel column, input channel) of   *)
(* the tensor is at the position the inverse index map gives, and the      *)
(* reordered sequence has as many non-padding positions as the tensor has  *)
(* elements; the elements being distinct, each is at exactly one position  *)
(* and reading the sequence through the inverse map recovers the tensor.   *)
C3_ReorderInvertible ==
    pc = "reordered" =>
        LET sh == attr.weights.shape
            bz == params.block_size.z
            data == weights_reordered.data
        IN  /\ \A oc \in 0..(sh.o - 1), y \in 0..(sh.h - 1),
                  x \in 0..(sh.w - 1), ic \in 0..(sh.i - 1) :
                  LET pos == LayoutPos(sh, params.weight_layout, bz,
                                       oc, y, x, ic)
                  IN  /\ pos + 1 \in DOMAIN data
                      /\ data[pos + 1] = TensorAt(sh, oc, y, x, ic)
            /\ Cardinality({n \in DOMAIN data : data[n] # 0})
                 = sh.o * sh.h * sh.w * sh.i

\* a reordering of a tensor with several kernel positions and channel
\* groups: its last element is recovered from a position before the padding
C3_Witness ==
    /\ pc = "reordered"
    /\ params.weight_layout = "I4O4"
    /\ params.block_size.z = 2
    /\ attr.weights.shape = [o |-> 6, h |-> 2, w |-> 2, i |-> 5]
    /\ weights_reordered.data[
           LayoutPos(attr.weights.shape, "I4O4", 2, 5, 1, 1, 4) + 1]
         = TensorAt(attr.weights.shape, 5, 1, 1, 4)
    /\ LayoutPos(attr.weights.shape, "I4O4", 2, 5, 1, 1, 4) + 1
         < Len(weights_reordered.data)

---------------------------------------------------------------------------
(* Quantities the property of the kernel's weight reads is stated with.    *)

\* the first channel-groups Z of the tiles of a destination of o channels
TileBases(o, bz) ==
    { d * bz : d \in 0..((((o + 3) \div 4) + bz - 1) \div bz - 1) }

\* the output channel and the input channel of component c of the 4-vector
\* of the tuple (channel-group Z + z, lane ch, input channel-group s)
TupleDstCh(layout, Z, r, c) ==
    (Z + r.z) * 4 + (IF layout = "O4I4" THEN r.ch ELSE c)

TupleSrcCh(layout, r, c) ==
    r.s * 4 + (IF layout = "O4I4" THEN c ELSE r.ch)

\* that component in the tensor: 0 outside it
TupleValue(shape, layout, Z, r, c) ==
    LET oc == TupleDstCh(layout, Z, r, c)
        ic == TupleSrcCh(layout, r, c)
    IN  IF oc >= shape.o \/ ic >= shape.i THEN 0
        ELSE TensorAt(shape, oc, r.ky, r.kx, ic)

\* (ky, kx, s, z, ch) of a read
ReadTuple(r) == <<r.ky, r.kx, r.s, r.z, r.ch>>

(* C4: for every record GetConvParams returns and every tile of the        *)
(* destination, the 4-vector the kernel reads as the weight for (output    *)
(* channel-group Z+z, lane ch, kernel row, kernel column, input            *)
(* channel-group s) lies inside the reordered weights, at the position     *)
(* ReorderWeightsForConv stored that tuple at, and holds the tuple's four  *)
(* tensor elements under the record's inner layout (O4I4: the 4 input      *)
(* channels of one output channel; I4O4: the 4 output channels of one      *)
(* input channel); and the kernel reads every tuple of the tile once.      *)
C4_KernelReadsReordered ==
    pc = "generic" =>
        LET sh   == attr.weights.shape
            bz   == params.block_size.z
            lay  == params.weight_layout
            data == weights_reordered.data
        IN  \A Z \in TileBases(sh.o, bz) :
              LET reads == KernelWeightReads(params, KernelArgs(attr), Z, 0)
              IN  /\ \A r \in reads :
                        /\ 4 * r.index + 4 \in DOMAIN data
                        /\ 4 * r.index
                             = LayoutPos(sh, lay, bz,
                                         TupleDstCh(lay, Z, r, 0),
                                         r.ky, r.kx, TupleSrcCh(lay, r, 0))
                        /\ \A c \in 0..3 :
                              data[4 * r.index + c + 1]
                                = TupleValue(sh, lay, Z, r, c)
                  /\ { ReadTuple(r) : r \in reads }
                       = (0..(sh.h - 1)) \X (0..(sh.w - 1))
                           \X (0..((sh.i + 3) \div 4 - 1))
                           \X (0..(bz - 1)) \X (0..3)
                  /\ Cardinality(reads)
                       = sh.h * sh.w * ((sh.i + 3) \div 4) * bz * 4

\* a record with a loop over the tiles and an unrolled channel-group loop
\* for a 2x2 kernel: in its second tile, the read of the last kernel
\* position and of the second input channel-group holds tensor elements
C4_Witness ==
    /\ pc = "generic"
    /\ params.need_dst_loop
    /\ params.block_size.z >= 2
    /\ params.src_depth_loop_size >= 2
    /\ attr.weights.shape.h = 2 /\ attr.weights.shape.w = 2
    /\ params.block_size.z \in TileBases(attr.weights.shape.o,
                                         params.block_size.z)
    /\ \E r \in KernelWeightReads(params, KernelArgs(attr),
                                  params.block_size.z, 0) :
          /\ r.ky = 1 /\ r.kx = 1 /\ r.s = 1 /\ r.z = 0 /\ r.ch = 1
          /\ weights_reordered.data[4 * r.index + 1]
               = TupleValue(attr.weights.shape, params.weight_layout,
                            params.block_size.z, r, 0)
          /\ weights_reordered.data[4 * r.index + 1] # 0

---------------------------------------------------------------------------
(* Quantities the properties of the selectors are stated with.             *)

\* the channel-group counts of the destination and of the source
DstSlices == (dst_shape.c + 3) \div 4

SrcSlices == (attr.weights.shape.i + 3) \div 4

\* the convolution is 1x1 with stride 1, dilation 1 and no padding on X / Y
UnitOnX ==
    /\ attr.weights.shape.w = 1 /\ attr.strides.w = 1 /\ attr.dilations.w = 1
    /\ attr.padding.prepended.w = 0 /\ attr.padding.appended.w = 0

UnitOnY ==
    /\ attr.weights.shape.h = 1 /\ attr.strides.h = 1 /\ attr.dilations.h = 1
    /\ attr.padding.prepended.h = 0 /\ attr.padding.appended.h = 0

(* C5: x_kernel_is_1 is true if and only if the kernel width is 1, the     *)
(* stride on X is 1, the dilation on X is 1 and the prepended and the      *)
(* appended X paddings are 0; likewise y_kernel_is_1 with the Y            *)
(* quantities; and the record GetConvParams returns carries these values.  *)
C5_KernelIs1 ==
    pc = "generic" =>
        /\ params.x_kernel_is_1 = UnitOnX
        /\ params.y_kernel_is_1 = UnitOnY

\* a record whose X axis is unit and whose Y axis fails on the appended
\* padding alone
C5_Witness ==
    /\ pc = "generic"
    /\ params.x_kernel_is_1
    /\ ~params.y_kernel_is_1
    /\ attr.weights.shape.h = 1 /\ attr.strides.h = 1
    /\ attr.dilations.h = 1 /\ attr.padding.prepended.h = 0
    /\ attr.padding.appended.h = 1

(* C6: in every record of GetConvParams and of the Winograd path, if       *)
(* weights_upload_type is CONSTANT_MEM then need_src_loop and              *)
(* need_dst_loop are false and x_kernel_is_1 and y_kernel_is_1 are true.   *)
C6_ConstantMemImplies ==
    (pc \in {"generic", "wino"}
       /\ params.weights_upload_type = "CONSTANT_MEM") =>
        /\ ~params.need_src_loop
        /\ ~params.need_dst_loop
        /\ params.x_kernel_is_1
        /\ params.y_kernel_is_1

\* a record with the constant-memory upload and several channel-groups per
\* thread
C6_Witness ==
    /\ pc = "generic"
    /\ params.weights_upload_type = "CONSTANT_MEM"
    /\ params.block_size.z > 1

(* C7: in every record of GetConvParams and of the Winograd path           *)
(* linear_wh and linear_whs are never both true, also when a Family-A      *)
(* selector first enables linear_wh and then switches to linear_whs.       *)
C7_LinearExclusive ==
    pc \in {"generic", "wino"} => ~(params.linear_wh /\ params.linear_whs)

\* a Family-A record in linear_whs mode for which the linear-WH group count
\* was below the 3-D one, so that linear_wh had been enabled first
C7_Witness ==
    /\ pc = "generic"
    /\ gpu_info.vendor = "apple"
    /\ ~gpu_info.local_mem_preferred
    /\ params.linear_whs
    /\ ~params.linear_wh
    /\ GetGroupsCountForLinearWH(dst_shape, int3(32, 1, 1), params.block_size)
         < GetGroupsCount(dst_shape, int3(8, 4, 1), params.block_size)

(* C8 as stated: for a Family-C (AMD) device and any destination shape    *)
(* (W, H, C) the record has block_size (1,1,4) and work_group_size         *)
(* (8,4,1), and the dispatch the resize function returns has group count   *)
(* (ceil(W/8), ceil(H/4), ceil(ceil(C/4)/4)) in that axis order: (4,8,1)   *)
(* for W = H = 32, C = 16.                                                 *)
C8_AmdDispatchAsStated ==
    (pc = "generic" /\ gpu_info.vendor = "amd") =>
        /\ params.block_size = int3(1, 1, 4)
        /\ params.work_group_size = int3(8, 4, 1)
        /\ dispatch # NoDispatch =>
              dispatch.groups_count
                = int3((dispatch.shape.w + 7) \div 8,
                       (dispatch.shape.h + 3) \div 4,
                       (((dispatch.shape.c + 3) \div 4) + 3) \div 4)

(* C8 amended: the same record, and the group count in the order of the    *)
(* record's work_group_launch_order (2,0,1):                               *)
(* (ceil(ceil(C/4)/4), ceil(W/8), ceil(H/4)), with work-groups of          *)
(* (8,4,1); (1,4,8) for W = H = 32, C = 16.                                *)
C8_AmdDispatchLaunchOrder ==
    (pc = "generic" /\ gpu_info.vendor = "amd") =>
        /\ params.block_size = int3(1, 1, 4)
        /\ params.work_group_size = int3(8, 4, 1)
        /\ params.work_group_launch_order = int3(2, 0, 1)
        /\ dispatch # NoDispatch =>
              /\ dispatch.group_size = int3(8, 4, 1)
              /\ dispatch.groups_count
                   = int3((((dispatch.shape.c + 3) \div 4) + 3) \div 4,
                          (dispatch.shape.w + 7) \div 8,
                          (dispatch.shape.h + 3) \div 4)

\* the resize function called for a 32 x 32 destination of 16 channels on
\* an AMD device
C8_Witness ==
    /\ pc = "generic"
    /\ gpu_info.vendor = "amd"
    /\ dispatch.shape = [w |-> 32, h |-> 32, c |-> 16]
    /\ dispatch.groups_count = int3(1, 4, 8)

(* C9 as stated: on any device family, for a convolution with a 1x1        *)
(* kernel, stride 1, dilation 1 and no padding whose output channel-group  *)
(* count equals block_size.z and whose input channel-group count equals    *)
(* src_depth_loop_size, GetConvParams returns CONSTANT_MEM.                *)
C9_ConstantMemAnyFamily ==
    (pc = "generic" /\ UnitOnX /\ UnitOnY
       /\ DstSlices = params.block_size.z
       /\ SrcSlices = params.src_depth_loop_size) =>
        params.weights_upload_type = "CONSTANT_MEM"

(* C9 amended: the same for the Family-A devices (entry-tier and           *)
(* high-tier).                                                             *)
C9_ConstantMemFamilyA ==
    (pc = "generic" /\ gpu_info.vendor = "apple" /\ UnitOnX /\ UnitOnY
       /\ DstSlices = params.block_size.z
       /\ SrcSlices = params.src_depth_loop_size) =>
        params.weights_upload_type = "CONSTANT_MEM"

\* a high-tier Family-A record of that case with an unrolled channel-group
\* loop
C9_Witness ==
    /\ pc = "generic"
    /\ gpu_info.vendor = "apple"
    /\ UnitOnX /\ UnitOnY
    /\ DstSlices = params.block_size.z
    /\ SrcSlices = params.src_depth_loop_size
    /\ params.src_depth_loop_size = 4
    /\ params.weights_upload_type = "CONSTANT_MEM"

(* C10 as stated: in every record of GetConvParams need_dst_loop is false  *)
(* whenever the output channel-group count equals block_size.z and         *)
(* need_src_loop is false whenever the input channel-group count equals    *)
(* src_depth_loop_size.                                                    *)
C10_NoLoopAnyFamily ==
    pc = "generic" =>
        /\ (DstSlices = params.block_size.z => ~params.need_dst_loop)
        /\ (SrcSlices = params.src_depth_loop_size => ~params.need_src_loop)

(* C10 amended: the same for the records of the Family-A devices.          *)
C10_NoLoopFamilyA ==
    (pc = "generic" /\ gpu_info.vendor = "apple") =>
        /\ (DstSlices = params.block_size.z => ~params.need_dst_loop)
        /\ (SrcSlices = params.src_depth_loop_size => ~params.need_src_loop)

\* an entry-tier Family-A record for 16 output channels with
\* block_size.z = 4 and one input channel-group
C10_Witness ==
    /\ pc = "generic"
    /\ gpu_info.vendor = "apple"
    /\ gpu_info.local_mem_preferred
    /\ dst_shape.c = 16
    /\ params.block_size.z = 4
    /\ SrcSlices = 1
    /\ params.src_depth_loop_size = 1
    /\ ~params.need_dst_loop
    /\ ~params.need_src_loop

(* C11 as stated: for a device of an unrecognized family GetConvParams    *)
(* returns the record it returns for a Family-C (AMD) device given the     *)
(* same convolution, precision and destination shape, every field equal,   *)
(* the inner layout chosen by the precision included.                      *)
C11_OtherEqualsAmd ==
    (pc = "generic" /\ gpu_info.vendor = "other") =>
        params = GetConvParams([gpu_info EXCEPT !.vendor = "amd"],
                               attr, precision, dst_shape)

(* C11 amended: the record equals the AMD one in every field but the       *)
(* inner layout, which is O4I4 for every precision; the two records are    *)
(* equal exactly when the precision is F32_F16.                            *)
C11_OtherEqualsAmdButLayout ==
    (pc = "generic" /\ gpu_info.vendor = "other") =>
        LET amd == GetConvParams([gpu_info EXCEPT !.vendor = "amd"],
                                 attr, precision, dst_shape)
        IN  /\ params = [amd EXCEPT !.weight_layout = "O4I4"]
            /\ (params = amd) <=> (precision = "F32_F16")

\* the record of an unrecognized device at precision F16, where the AMD
\* record has the I4O4 layout
C11_Witness ==
    /\ pc = "generic"
    /\ gpu_info.vendor = "other"
    /\ precision = "F16"
    /\ params.weight_layout = "O4I4"
    /\ params.block_size = int3(1, 1, 4)
    /\ GetConvParams([gpu_info EXCEPT !.vendor = "amd"], attr, precision,
                     dst_shape).weight_layout = "I4O4"

(* C12 as stated: ConvolutionGeneric binds the weights buffer as constant  *)
(* memory if and only if weights_upload_type is CONSTANT_MEM or            *)
(* LOCAL_MEM_BY_THREADS, and as global memory for every other upload.      *)
C12_ConstantOrLocalIsConstant ==
    pc = "generic" =>
        /\ mem_type \in {"CONSTANT", "GLOBAL"}
        /\ mem_type = "CONSTANT" <=>
              params.weights_upload_type
                \in {"CONSTANT_MEM", "LOCAL_MEM_BY_THREADS"}

(* C12 amended: the buffer is bound as constant memory if and only if      *)
(* weights_upload_type is CONSTANT_MEM; for every other upload, the        *)
(* local-memory one included, it is bound as global memory; and the        *)
(* kernel text declares the weights pointer in the matching address space. *)
C12_ConstantMemIsConstant ==
    pc = "generic" =>
        /\ mem_type \in {"CONSTANT", "GLOBAL"}
        /\ mem_type = "CONSTANT" <=>
              params.weights_upload_type = "CONSTANT_MEM"
        /\ mem_type = "CONSTANT" <=> KernelAddrSpace(params) = "constant"

\* a record with the local-memory upload, its buffer bound as global memory
C12_Witness ==
    /\ pc = "generic"
    /\ params.weights_upload_type = "LOCAL_MEM_BY_THREADS"
    /\ mem_type = "GLOBAL"
    /\ KernelAddrSpace(params) = "device"

(* C13: after any sequence of calls of the update function, the bound      *)
(* task_size_x is ceil(W / block_size.x) and the bound task_size_y is      *)
(* task_size_x * ceil(H / block_size.y) for the W, H of the most recent    *)
(* call and the block_size of the record of the construction, the one      *)
(* the resize function sizes the dispatch with; nothing of an earlier      *)
(* shape remains bound.                                                    *)
C13_TaskSizeOfLastCall ==
    (pc \in {"generic", "wino"} /\ task_size # NoTaskSize) =>
        LET W  == task_size.shape.w
            H  == task_size.shape.h
            bx == params.block_size.x
            by == params.block_size.y
        IN  /\ task_size.x = (W + bx - 1) \div bx
            /\ task_size.y = task_size.x * ((H + by - 1) \div by)
            /\ dispatch # NoDispatch =>
                  dispatch.group_size = params.work_group_size

\* the update function called last for a 9 x 5 destination, not the shape
\* of the construction, on a record with a 2 x 2 tile
C13_Witness ==
    /\ pc = "generic"
    /\ params.block_size.x = 2 /\ params.block_size.y = 2
    /\ dst_shape.w = 24
    /\ task_size.shape.w = 9 /\ task_size.shape.h = 5
    /\ task_size.x = 5 /\ task_size.y = 15
    /\ dispatch.shape.w = 32

\* a record is malformed: a block_size component <= 0, or both flags set
Malformed(p) ==
    \/ p.block_size.x <= 0 \/ p.block_size.y <= 0 \/ p.block_size.z <= 0
    \/ (p.linear_wh /\ p.linear_whs)

C15_EntryTierAlwaysLocalMem ==
    (pc = "generic" /\ gpu_info.vendor = "apple"
       /\ gpu_info.local_mem_preferred) =>
        params.weights_upload_type = "LOCAL_MEM_BY_THREADS"

(* C15 amended: for such a device the upload is CONSTANT_MEM when neither  *)
(* loop is needed and the kernel is unit on both axes, otherwise           *)
(* GLOBAL_MEM when the selector switched to linear_whs, and                *)
(* LOCAL_MEM_BY_THREADS in every other case.                               *)
C15_EntryTierUpload ==
    (pc = "generic" /\ gpu_info.vendor = "apple"
       /\ gpu_info.local_mem_preferred) =>
        params.weights_upload_type =
            IF ~params.need_src_loop /\ ~params.need_dst_loop
                 /\ UnitOnX /\ UnitOnY
            THEN "CONSTANT_MEM"
            ELSE IF params.linear_whs THEN "GLOBAL_MEM"
            ELSE "LOCAL_MEM_BY_THREADS"

\* an entry-tier record switched to linear_whs, with the global upload
C15_Witness ==
    /\ pc = "generic"
    /\ gpu_info.vendor = "apple"
    /\ gpu_info.local_mem_preferred
    /\ params.linear_whs
    /\ params.need_dst_loop
    /\ params.weights_upload_type = "GLOBAL_MEM"

(* C16 as stated: in the Family-A selectors, when the block has a 2x tile  *)
(* on exactly one spatial axis and exactly one of the destination width    *)
(* and height is odd, the tile is on the axis whose dimension is odd.      *)
C16_TileOnOddAxis ==
    (pc = "generic" /\ gpu_info.vendor = "apple"
       /\ params.block_size.x * params.block_size.y = 2
       /\ (dst_shape.w % 2) # (dst_shape.h % 2)) =>
        /\ params.block_size.x = 2 => dst_shape.w % 2 = 1
        /\ params.block_size.y = 2 => dst_shape.h % 2 = 1

(* C16 amended: in that case the tile is on the axis whose dimension is    *)
(* even.                                                                   *)
C16_TileOnEvenAxis ==
    (pc = "generic" /\ gpu_info.vendor = "apple"
       /\ params.block_size.x * params.block_size.y = 2
       /\ (dst_shape.w % 2) # (dst_shape.h % 2)) =>
        /\ params.block_size.x = 2 => dst_shape.w % 2 = 0
        /\ params.block_size.y = 2 => dst_shape.h % 2 = 0

\* an entry-tier record for a 15 x 16 destination, tiled 2x on Y
C16_Witness ==
    /\ pc = "generic"
    /\ gpu_info.vendor = "apple"
    /\ gpu_info.local_mem_preferred
    /\ dst_shape.w = 15 /\ dst_shape.h = 16
    /\ params.block_size.x = 1
    /\ params.block_size.y = 2

(* C17 as stated: for a Family-B (Intel) device block_size.z is 4 when the *)
(* output channel-group count is divisible by 4 or is >= 8, and 2 for      *)
(* every other count.                                                      *)
C17_IntelZ4Or2 ==
    (pc = "generic" /\ gpu_info.vendor = "intel") =>
        params.block_size.z =
            IF DstSlices % 4 = 0 \/ DstSlices >= 8 THEN 4 ELSE 2

(* C17 amended: block_size.z is 4 when the count is divisible by 4 or is   *)
(* >= 8; otherwise 2 when the count is even or >= 4; and 1 for the         *)
(* remaining counts, 1 and 3.                                              *)
C17_IntelZ4Or2Or1 ==
    (pc = "generic" /\ gpu_info.vendor = "intel") =>
        /\ params.block_size.z =
              IF DstSlices % 4 = 0 \/ DstSlices >= 8 THEN 4
              ELSE IF DstSlices % 2 = 0 \/ DstSlices >= 4 THEN 2
              ELSE 1
        /\ params.block_size.z = 1 <=> DstSlices \in {1, 3}

\* an Intel record for 12 output channels: 3 channel-groups, block_size.z 1
C17_Witness ==
    /\ pc = "generic"
    /\ gpu_info.vendor = "intel"
    /\ dst_shape.c = 12
    /\ params.block_size.z = 1

\* the work-group size a selector starts from, before any linearization
DefaultWorkGroupSize ==
    IF gpu_info.vendor = "apple"
    THEN IF gpu_info.local_mem_preferred
              /\ params.block_size.x > params.block_size.y
         THEN int3(4, 8, 1) ELSE int3(8, 4, 1)
    ELSE IF gpu_info.vendor = "intel" THEN int3(8, 2, 1)
    ELSE int3(8, 4, 1)

\* the number of work-groups of a dispatch
GroupsOf(sizes) ==
    sizes.groups_count.x * sizes.groups_count.y * sizes.groups_count.z

(* C18: whenever a selector chooses linear_wh or linear_whs, the number    *)
(* of work-groups GetDispatchSizes gives for the record is strictly        *)
(* smaller than the 3-D group count for the selector's default             *)
(* work-group size and the same block_size, also when linear_whs was       *)
(* chosen through the ratio threshold without linear_wh.                   *)
C18_LinearReducesGroups ==
    (pc = "generic" /\ (params.linear_wh \/ params.linear_whs)) =>
        GroupsOf(GetDispatchSizes(params, dst_shape))
          < GetGroupsCount(dst_shape, DefaultWorkGroupSize, params.block_size)

\* a high-tier Family-A record in linear_whs mode for which the linear-WH
\* count was not below the 3-D one
C18_Witness ==
    /\ pc = "generic"
    /\ gpu_info.vendor = "apple"
    /\ ~gpu_info.local_mem_preferred
    /\ params.linear_whs
    /\ GetGroupsCountForLinearWH(dst_shape, int3(32, 1, 1), params.block_size)
         = GetGroupsCount(dst_shape, int3(8, 4, 1), params.block_size)
    /\ GroupsOf(GetDispatchSizes(params, dst_shape))
         < GetGroupsCount(dst_shape, int3(8, 4, 1), params.block_size)

\* the kernel is launched with the args and the dispatch of one shape
Launched ==
    /\ pc \in {"generic", "wino"}
    /\ dispatch # NoDispatch
    /\ task_size.shape = dispatch.shape

(* C19: for every record of the selectors or of the Winograd path whose    *)
(* upload is local-memory-staged or SIMD-broadcast, no thread returns      *)
(* before the weights are staged while another thread of its work-group    *)
(* goes on to stage them: the exit on X and Y is not emitted before the    *)
(* loops, and in every work-group the exit on Z is taken by all threads    *)
(* or by none (each thread takes it exactly when the group's first thread  *)
(* does).                                                                  *)
C19_StagingByWholeGroup ==
    (Launched /\ (UseLocalMem(params) \/ UseSimdBroadcast(params))) =>
        /\ XYExit(params) # "before_loops"
        /\ \A g \in GroupIds(dispatch) :
              LET first == ReturnsBeforeLoops(params, dispatch.shape,
                               GlobalIdsGen(params, task_size, g,
                                            int3(0, 0, 0),
                                            dispatch.group_size))
              IN  \A l \in LocalIds(dispatch) :
                     ReturnsBeforeLoops(params, dispatch.shape,
                         GlobalIdsGen(params, task_size, g, l,
                                      dispatch.group_size))
                     = first

\* a local-memory record launched for a 9 x 5 destination: a work-group
\* holds a thread inside the destination and one outside on X, and
\* both go on to the loops
C19_Witness ==
    /\ Launched
    /\ pc = "generic"
    /\ UseLocalMem(params)
    /\ dispatch.shape.w = 9 /\ dispatch.shape.h = 5
    /\ \E g \in GroupIds(dispatch) : \E l1, l2 \in LocalIds(dispatch) :
          LET i1 == GlobalIdsGen(params, task_size, g, l1,
                                 dispatch.group_size)
              i2 == GlobalIdsGen(params, task_size, g, l2,
                                 dispatch.group_size)
          IN  /\ i1.X < 9 /\ i1.Y < 5
              /\ (i2.X >= 9 \/ i2.Y >= 5)
              /\ ~ReturnsBeforeLoops(params, dispatch.shape, i1)
              /\ ~ReturnsBeforeLoops(params, dispatch.shape, i2)

(* C20: for every record of the selectors, the accumulation of one kernel  *)
(* position reads the input channel-groups 0 .. S-1 once each and none at  *)
(* an index >= S: src_depth_loop_size divides S, the loop ends with s = S, *)
(* and need_src_loop is false only when src_depth_loop_size = S.           *)
C20_SrcGroupsReadOnce ==
    pc = "generic" =>
        LET run == KernelSrcLoop(params, KernelArgs(attr), 0, 0)
        IN  /\ run.read = [n \in 1..SrcSlices |-> n - 1]
            /\ run.s = SrcSlices
            /\ SrcSlices % params.src_depth_loop_size = 0
            /\ ~params.need_src_loop =>
                  params.src_depth_loop_size = SrcSlices

\* a record that loops twice over passes of two channel-groups
C20_Witness ==
    /\ pc = "generic"
    /\ params.need_src_loop
    /\ params.src_depth_loop_size = 2
    /\ SrcSlices = 4
    /\ KernelSrcLoop(params, KernelArgs(attr), 0, 0).read = <<0, 1, 2, 3>>

(* C21: in the code emitted by GenerateUploadByThreads for N work items    *)
(* and E elements (any N >= 1 and E >= 0), run by the threads of local     *)
(* index 0..N-1, each element index in 0..E-1 is copied by exactly one     *)
(* thread, from the same index of the source, and no index >= E is read    *)
(* or written.                                                             *)
C21_UploadCoversOnce ==
    pc = "uploaded" =>
        /\ \A e \in 0..(weights_cache.elements_to_upload - 1) :
              /\ Cardinality({ c \in weights_cache.copies : c.local = e }) = 1
              /\ \A c \in weights_cache.copies : c.local = e => c.global = e
        /\ \A c \in weights_cache.copies :
              /\ c.local \in 0..(weights_cache.elements_to_upload - 1)
              /\ c.global \in 0..(weights_cache.elements_to_upload - 1)
              /\ c.lid \in 0..(weights_cache.total_work_items - 1)

\* an upload with whole rounds and a remainder: 7 elements by 3 threads,
\* the last copied by thread 0 alone
C21_Witness ==
    /\ pc = "uploaded"
    /\ weights_cache.total_work_items = 3
    /\ weights_cache.elements_to_upload = 7
    /\ Cardinality(weights_cache.copies) = 7
    /\ [lid |-> 0, local |-> 6, global |-> 6] \in weights_cache.copies

\* the threads of the launched dispatch that go on to the stores
StoringThreads ==
    { t \in GroupIds(dispatch) \X LocalIds(dispatch) :
        ReachesStore(params, dispatch.shape,
                     GlobalIdsGen(params, task_size, t[1], t[2],
                                  dispatch.group_size)) }

\* the first position (X, Y, Z) of every tile of the output tiling
TileOrigins(p, shape) ==
    { [X |-> tx * p.block_size.x, Y |-> ty * p.block_size.y,
       Z |-> tz * p.block_size.z] :
        tx \in 0..(DivideRoundUp(shape.w, p.block_size.x) - 1),
        ty \in 0..(DivideRoundUp(shape.h, p.block_size.y) - 1),
        tz \in 0..(DivideRoundUp(DivideRoundUp(shape.c, 4),
                                 p.block_size.z) - 1) }

(* C22: for every record of the selectors or of the Winograd path and      *)
(* every destination shape, with task_size_x and task_size_y bound for     *)
(* that shape, the threads dispatched by GetDispatchSizes and decoded by   *)
(* the thread-id code cover the output tiling exactly: the threads that    *)
(* reach the stores decode the tiles one-to-one (as many threads as tiles, *)
(* and every tile decoded), in the 3-D, linear_wh and linear_whs modes.    *)
C22_TilingCoveredOnce ==
    Launched =>
        LET storing == StoringThreads
            tiles   == TileOrigins(params, dispatch.shape)
        IN  /\ { GlobalIdsGen(params, task_size, t[1], t[2],
                              dispatch.group_size) : t \in storing } = tiles
            /\ Cardinality(storing) = Cardinality(tiles)

\* a linear_whs record launched for a 9 x 5 destination: the dispatch
\* holds more threads than tiles, and as many go on to the stores as
\* there are tiles
C22_Witness ==
    /\ Launched
    /\ params.linear_whs
    /\ dispatch.shape.w = 9 /\ dispatch.shape.h = 5
    /\ Cardinality(StoringThreads)
         = Cardinality(TileOrigins(params, dispatch.shape))
    /\ Cardinality(GroupIds(dispatch)) * Cardinality(LocalIds(dispatch))
         > Cardinality(StoringThreads)

(* C23: for every record of the selectors or of the Winograd path and      *)
(* every dispatched thread, every store of the kernel targets a position   *)
(* with x < W, y < H and channel-group < Slices, the stores being guarded  *)
(* on width and height only at nonzero tile offsets; and in linear_whs     *)
(* mode, where no exit on X and Y is emitted, every thread that passes the *)
(* check on Z decodes X < W and Y < H.                                     *)
C23_StoresInsideDestination ==
    Launched =>
        \A ids \in { GlobalIdsGen(params, task_size, t[1], t[2],
                                  dispatch.group_size) :
                        t \in GroupIds(dispatch) \X LocalIds(dispatch) } :
            ReachesStore(params, dispatch.shape, ids) =>
                /\ params.linear_whs =>
                      /\ XYExit(params) = "none"
                      /\ ids.X < dispatch.shape.w /\ ids.Y < dispatch.shape.h
                /\ \A st \in StoreTargets(params, dispatch.shape, ids) :
                      /\ st.x \in 0..(dispatch.shape.w - 1)
                      /\ st.y \in 0..(dispatch.shape.h - 1)
                      /\ st.s \in 0..(DivideRoundUp(dispatch.shape.c, 4) - 1)

\* a linear_whs record with tiles of width 2 launched for a destination
\* of width 9: the thread of the last tile of a row stores at x = 8 and
\* not at x = 9
C23_Witness ==
    /\ Launched
    /\ params.linear_whs
    /\ params.block_size.x = 2
    /\ dispatch.shape.w = 9
    /\ \E t \in StoringThreads :
          LET ids == GlobalIdsGen(params, task_size, t[1], t[2],
                                  dispatch.group_size)
              st  == StoreTargets(params, dispatch.shape, ids)
          IN  /\ ids.X = 8
              /\ [x |-> 8, y |-> ids.Y, s |-> ids.Z] \in st
              /\ [x |-> 9, y |-> ids.Y, s |-> ids.Z] \notin st

=============================================================================
